---- MODULE Spec2Model ----
(***************************************************************************)
(* Model of the SWIFT message segmentation and extraction pipeline of      *)
(* backend/app/extractors (mt_multi.py, mt202.py, mt103.py, mt910.py,      *)
(* bic_utils.py) and of backend/app/extractor_manager.py.                  *)
(*                                                                         *)
(* A text is a sequence of tokens.  A token is a piece of text that the    *)
(* program's regular expressions treat as a unit; the token NL is the      *)
(* line break.  The string a token sequence stands for is its tokens       *)
(* joined by one space, with no space next to a line break.  A regular     *)
(* expression of the source is modelled by the operator of the same name:  *)
(* it says which tokens of the vocabulary the expression matches, and at   *)
(* which positions of a text (start of line, whole line, anywhere).        *)
(***************************************************************************)
EXTENDS Naturals, Sequences, FiniteSets, TLC

VARIABLES
    pc,             \* position of the operation under way
    text,           \* the input (the text of a PDF, or the call of the function under study)
    result,         \* what the function under study returned
    direction,      \* extract_messages_from_pdf: "incoming" or "outgoing"
    workbook,       \* state of the BIC workbook(s) on disk
    _BIC_MAP_CACHE, \* bic_utils: the module-level caches
    blocks,         \* extract_messages_from_pdf: the blocks of the PDF
    index,          \* extract_messages_from_pdf: the block the loop is at
    rows,           \* extract_messages_from_pdf: the records emitted so far
    missing_codes   \* extract_messages_from_pdf: the unmapped / empty sets

vars ==
    <<pc, text, result, direction, workbook, _BIC_MAP_CACHE, blocks, index, rows,
      missing_codes>>

\* The variables of extract_messages_from_pdf, at rest while a single
\* function is studied.
pdf_vars == <<direction, workbook, _BIC_MAP_CACHE, blocks, index, rows, missing_codes>>

PdfIdle ==
    /\ direction = "incoming"
    /\ workbook = "missing"
    /\ _BIC_MAP_CACHE = "unset"
    /\ blocks = <<>>
    /\ index = 0
    /\ rows = <<>>
    /\ missing_codes = [unmapped |-> {}, empty |-> {}]

(***************************************************************************)
(* Vocabulary                                                              *)
(***************************************************************************)
NL == "\n"

\* Python's None, as a value of the same sort as the strings it stands beside.
None == "<None>"

\* Headers 'Identifier: fin.<code>' of the messages of a report.
IdentifierTokens ==
    { "Identifier: fin.202", "Identifier: fin.202.COV", "Identifier: fin.103",
      "Identifier: fin.103.STP", "Identifier: fin.910", "Identifier: fin.555",
      "Identifier: fin.2025" }
\* Inline type tokens 'MT###'.
InlineTypeTokens == {"MT 910", "MT103"}
UmiTokens == {"Message Identifier"}
(***************************************************************************)
(* Strings and slices                                                      *)
(***************************************************************************)
Indices(t) == [k \in 1..Len(t) |-> k]

AtLineStart(t, p) == p = 1 \/ t[p - 1] = NL

AtLineEnd(t, p) == p = Len(t) \/ t[p + 1] = NL

\* str.strip(): a block loses the line breaks at its two ends.
RECURSIVE strip(_)
strip(t) ==
    IF t = <<>> THEN <<>>
    ELSE IF Head(t) = NL THEN strip(Tail(t))
    ELSE IF t[Len(t)] = NL THEN strip(SubSeq(t, 1, Len(t) - 1))
    ELSE t

\* len() of the string a token sequence stands for.
RECURSIVE len(_)
len(t) ==
    IF t = <<>> THEN 0
    ELSE IF Len(t) = 1 THEN Len(t[1])
    ELSE Len(t[1]) + (IF t[1] # NL /\ t[2] # NL THEN 1 ELSE 0) + len(Tail(t))

\* [b for b in blocks if b]
NonEmpty(bs) == SelectSeq(bs, LAMBDA b : b # <<>>)

(***************************************************************************)
(* mt_multi._split_messages                                                *)
(***************************************************************************)
\* finditer of each pattern: the positions of its matches, in text order.
_MESSAGE_N_RE(t) ==
    SelectSeq(Indices(t), LAMBDA p : t[p] = "Message 1" /\ AtLineStart(t, p))

_IDENTIFIER_RE(t) ==
    SelectSeq(Indices(t), LAMBDA p : t[p] \in IdentifierTokens)

_SENDER_RE(t) ==
    SelectSeq(Indices(t), LAMBDA p : t[p] = "Sender:" /\ AtLineStart(t, p))

_UMI_RE(t) ==
    SelectSeq(Indices(t), LAMBDA p : t[p] \in UmiTokens /\ AtLineStart(t, p))

_F20_TOKEN_RE(t) ==
    SelectSeq(Indices(t), LAMBDA p : t[p] = ":20:")

_SEPARATOR_RE(t) ==
    SelectSeq(Indices(t),
              LAMBDA p : t[p] = "-----" /\ AtLineStart(t, p) /\ AtLineEnd(t, p))

_UNDERSCORE_RE(t) ==
    SelectSeq(Indices(t),
              LAMBDA p : t[p] = "_____" /\ AtLineStart(t, p) /\ AtLineEnd(t, p))

\* SliceAt with each block cut from the end of its match, not from its start.
SliceAfterMatch(t, positions) ==
    [j \in 1..Len(positions) |->
        strip(SubSeq(t, positions[j] + 1,
                     IF j < Len(positions) THEN positions[j + 1] - 1 ELSE Len(t)))]

\* blocks = [norm[positions[i]:positions[i+1]].strip() ...], positions ending
\* with len(norm).
SliceAt(t, positions) ==
    [j \in 1..Len(positions) |->
        strip(SubSeq(t, positions[j],
                     IF j < Len(positions) THEN positions[j + 1] - 1 ELSE Len(t)))]

\* The stripped segments between the matches of a separator pattern, and the
\* tail after the last one, empty segments left out.
SegmentsBetween(t, marks) ==
    NonEmpty([j \in 1..(Len(marks) + 1) |->
        strip(SubSeq(t,
                     IF j = 1 THEN 1 ELSE marks[j - 1] + 1,
                     IF j <= Len(marks) THEN marks[j] - 1 ELSE Len(t)))])

MinBlockLen == 10

\* Heuristic 4 of the source (":20:" / "F20" tokens): the prefix before the
\* first token is kept as a block, blocks of at most MinBlockLen characters go.
F20Blocks(t) ==
    LET tokens == _F20_TOKEN_RE(t)
        positions == IF tokens # <<>> /\ tokens[1] # 1 THEN <<1>> \o tokens ELSE tokens
    IN  SelectSeq(SliceAt(t, positions), LAMBDA b : len(b) > MinBlockLen)

\* _split_messages with the Sender heuristic tried before the Identifier one.
_split_messages_sender_first(t) ==
    IF t = <<>> THEN <<>>
    ELSE IF Len(_MESSAGE_N_RE(t)) >= 2 THEN NonEmpty(SliceAt(t, _MESSAGE_N_RE(t)))
    ELSE IF Len(_SENDER_RE(t)) >= 2 THEN NonEmpty(SliceAt(t, _SENDER_RE(t)))
    ELSE IF Len(_IDENTIFIER_RE(t)) >= 2 THEN NonEmpty(SliceAt(t, _IDENTIFIER_RE(t)))
    ELSE IF Len(_UMI_RE(t)) >= 2 THEN NonEmpty(SliceAt(t, _UMI_RE(t)))
    ELSE IF _F20_TOKEN_RE(t) # <<>> /\ Len(F20Blocks(t)) >= 2 THEN F20Blocks(t)
    ELSE IF _SEPARATOR_RE(t) # <<>> /\ Len(SegmentsBetween(t, _SEPARATOR_RE(t))) >= 2
        THEN SegmentsBetween(t, _SEPARATOR_RE(t))
    ELSE IF _UNDERSCORE_RE(t) # <<>> /\ Len(SegmentsBetween(t, _UNDERSCORE_RE(t))) >= 2
        THEN SegmentsBetween(t, _UNDERSCORE_RE(t))
    ELSE <<strip(t)>>

\* _split_messages with the final fallback filtered like the other block lists
\* ([b for b in [norm.strip()] if b]).
_split_messages_filtered_fallback(t) ==
    IF t = <<>> THEN <<>>
    ELSE IF Len(_MESSAGE_N_RE(t)) >= 2 THEN NonEmpty(SliceAt(t, _MESSAGE_N_RE(t)))
    ELSE IF Len(_IDENTIFIER_RE(t)) >= 2 THEN NonEmpty(SliceAt(t, _IDENTIFIER_RE(t)))
    ELSE IF Len(_SENDER_RE(t)) >= 2 THEN NonEmpty(SliceAt(t, _SENDER_RE(t)))
    ELSE IF Len(_UMI_RE(t)) >= 2 THEN NonEmpty(SliceAt(t, _UMI_RE(t)))
    ELSE IF _F20_TOKEN_RE(t) # <<>> /\ Len(F20Blocks(t)) >= 2 THEN F20Blocks(t)
    ELSE IF _SEPARATOR_RE(t) # <<>> /\ Len(SegmentsBetween(t, _SEPARATOR_RE(t))) >= 2
        THEN SegmentsBetween(t, _SEPARATOR_RE(t))
    ELSE IF _UNDERSCORE_RE(t) # <<>> /\ Len(SegmentsBetween(t, _UNDERSCORE_RE(t))) >= 2
        THEN SegmentsBetween(t, _UNDERSCORE_RE(t))
    ELSE NonEmpty(<<strip(t)>>)

_split_messages(t) ==
    IF t = <<>> THEN <<>>
    ELSE IF Len(_MESSAGE_N_RE(t)) >= 2 THEN NonEmpty(SliceAt(t, _MESSAGE_N_RE(t)))
    ELSE IF Len(_IDENTIFIER_RE(t)) >= 2 THEN NonEmpty(SliceAt(t, _IDENTIFIER_RE(t)))
    ELSE IF Len(_SENDER_RE(t)) >= 2 THEN NonEmpty(SliceAt(t, _SENDER_RE(t)))
    ELSE IF Len(_UMI_RE(t)) >= 2 THEN NonEmpty(SliceAt(t, _UMI_RE(t)))
    ELSE IF _F20_TOKEN_RE(t) # <<>> /\ Len(F20Blocks(t)) >= 2 THEN F20Blocks(t)
    ELSE IF _SEPARATOR_RE(t) # <<>> /\ Len(SegmentsBetween(t, _SEPARATOR_RE(t))) >= 2
        THEN SegmentsBetween(t, _SEPARATOR_RE(t))
    ELSE IF _UNDERSCORE_RE(t) # <<>> /\ Len(SegmentsBetween(t, _UNDERSCORE_RE(t))) >= 2
        THEN SegmentsBetween(t, _UNDERSCORE_RE(t))
    ELSE <<strip(t)>>

(***************************************************************************)
(* Texts of the splitter study: up to MaxLines lines, each of one of the   *)
(* shapes below, joined by line breaks.                                    *)
(***************************************************************************)
MaxLines == 3

RECURSIVE SeqsUpTo(_, _)
SeqsUpTo(S, n) ==
    IF n = 0 THEN {<<>>}
    ELSE LET shorter == SeqsUpTo(S, n - 1)
         IN  shorter \cup {Append(s, x) : s \in {q \in shorter : Len(q) = n - 1}, x \in S}

\* "".join(parts)
RECURSIVE Flatten(_)
Flatten(parts) == IF parts = <<>> THEN <<>> ELSE Head(parts) \o Flatten(Tail(parts))

\* "\n".join(lines)
RECURSIVE JoinLines(_)
JoinLines(lines) ==
    IF lines = <<>> THEN <<>>
    ELSE IF Len(lines) = 1 THEN lines[1]
    ELSE lines[1] \o <<NL>> \o JoinLines(Tail(lines))

SplitTexts ==
    { JoinLines(ls) : ls \in SeqsUpTo(
        { <<>>,
          <<"REF01">>,
          <<"Message 1">>,
          <<"Message 1", "Identifier: fin.202">>,
          <<"Identifier: fin.202">>,
          <<"REF01", "Identifier: fin.202">>,
          <<"Sender:">>,
          <<"Sender:", "Identifier: fin.202">>,
          <<"Message Identifier">>,
          <<":20:">>,
          <<":20:", "REF01">>,
          <<":20:", "REF01", "REF01">>,
          <<"REF01", ":20:", "REF01", "REF01">>,
          <<"-----">>,
          <<"-----", "REF01">>,
          <<"_____">> },
        MaxLines) }

InitSplit ==
    /\ pc = "ready"
    /\ text \in SplitTexts
    /\ result = <<>>
    /\ PdfIdle

Split ==
    /\ pc = "ready"
    /\ result' = _split_messages(text)
    /\ pc' = "split"
    /\ UNCHANGED <<text, pdf_vars>>

NextSplit == Split

SpecSplit == InitSplit /\ [][NextSplit]_vars

(***************************************************************************)
(* Properties of the splitter                                              *)
(***************************************************************************)
\* What each heuristic yields on its own, in the priority order of the
\* specification: Message N, Identifier, Sender, Message Identifier,
\* reference tag, separator lines, underscore runs.
HeuristicYields(t) ==
    << NonEmpty(SliceAt(t, _MESSAGE_N_RE(t))),
       NonEmpty(SliceAt(t, _IDENTIFIER_RE(t))),
       NonEmpty(SliceAt(t, _SENDER_RE(t))),
       NonEmpty(SliceAt(t, _UMI_RE(t))),
       F20Blocks(t),
       IF _SEPARATOR_RE(t) = <<>> THEN <<>> ELSE SegmentsBetween(t, _SEPARATOR_RE(t)),
       IF _UNDERSCORE_RE(t) = <<>> THEN <<>> ELSE SegmentsBetween(t, _UNDERSCORE_RE(t)) >>

First(S) == CHOOSE k \in S : \A m \in S : k <= m

PriorityResult(t) ==
    LET yields == HeuristicYields(t)
        winners == {k \in 1..Len(yields) : Len(yields[k]) >= 2}
    IN  IF winners = {} THEN <<strip(t)>> ELSE yields[First(winners)]

\* C5 (as stated): the result is what the first heuristic, in priority
\* order, that yields at least 2 blocks yields; when none does, it is the
\* entire text as one block.
C5_PriorityOrder_AsStated ==
    pc = "split" => result = PriorityResult(text)

\* C5 (amended): for every non-empty text the result is what the first
\* heuristic, in priority order, that yields at least 2 blocks yields, and the
\* whole (stripped) text as one block when none does; the empty text yields
\* no block at all.
C5_PriorityOrder ==
    pc = "split" =>
        IF text = <<>> THEN result = <<>> ELSE result = PriorityResult(text)

\* C5 witness: the Identifier heuristic and the lower-priority reference-tag
\* heuristic both yield at least 2 blocks, differently, and the split is the
\* Identifier one.
C5_Witness ==
    /\ pc = "split"
    /\ Len(HeuristicYields(text)[2]) >= 2
    /\ Len(HeuristicYields(text)[5]) >= 2
    /\ HeuristicYields(text)[2] # HeuristicYields(text)[5]
    /\ result = HeuristicYields(text)[2]

\* The blocks are slices of the text, one after the other.
RECURSIVE OrderedSlices(_, _, _)
OrderedSlices(bs, t, from) ==
    \/ bs = <<>>
    \/ \E a \in from..(Len(t) + 1) : \E b \in (a - 1)..Len(t) :
          /\ SubSeq(t, a, b) = Head(bs)
          /\ OrderedSlices(Tail(bs), t, b + 1)

\* C6 (as stated): for every text, the empty and the whitespace-only ones
\* included, the result is a non-empty sequence of blocks in document order.
C6_NonEmptyInOrder_AsStated ==
    pc = "split" => result # <<>> /\ OrderedSlices(result, text, 1)

\* C6 (amended): for every non-empty text, whitespace-only ones included, the
\* result is a non-empty sequence of blocks in document order; for the empty
\* string it is the empty sequence.
C6_NonEmptyInOrder ==
    pc = "split" =>
        /\ (text # <<>> => result # <<>>)
        /\ (text = <<>> => result = <<>>)
        /\ OrderedSlices(result, text, 1)

\* C6 witness: a text of line breaks only is split into one (empty) block.
C6_Witness ==
    /\ pc = "split"
    /\ text # <<>>
    /\ \A p \in 1..Len(text) : text[p] = NL
    /\ result = << <<>> >>

\* Block j begins at the j-th header and is as many blocks as headers.
StartsAtHeaders(bs, t) ==
    LET headers == _IDENTIFIER_RE(t)
    IN  /\ Len(bs) = Len(headers)
        /\ \A j \in 1..Len(headers) :
              /\ bs[j] # <<>>
              /\ SubSeq(t, headers[j], headers[j] + Len(bs[j]) - 1) = bs[j]

\* C7 (as stated): a text with k >= 2 "Identifier: fin.<code>" headers is
\* split into exactly k blocks, the i-th starting at the i-th header.
C7_IdentifierBlocks_AsStated ==
    (pc = "split" /\ Len(_IDENTIFIER_RE(text)) >= 2) => StartsAtHeaders(result, text)

\* C7 (amended): a text with k >= 2 "Identifier: fin.<code>" headers and
\* fewer than 2 lines beginning with "Message <number>" is split into exactly
\* k blocks, the i-th starting at the i-th header.
C7_IdentifierBlocks ==
    (pc = "split" /\ Len(_IDENTIFIER_RE(text)) >= 2 /\ Len(_MESSAGE_N_RE(text)) < 2)
        => StartsAtHeaders(result, text)

\* C7 witness: two headers, the second in the middle of a line, two blocks.
C7_Witness ==
    /\ pc = "split"
    /\ Len(_IDENTIFIER_RE(text)) = 2
    /\ ~AtLineStart(text, _IDENTIFIER_RE(text)[2])
    /\ Len(result) = 2
    /\ result[1][1] \in IdentifierTokens
    /\ result[2][1] \in IdentifierTokens

(***************************************************************************)
(* Type detection                                                          *)
(*                                                                         *)
(* Each pattern is given by the group it captures in a token of the        *)
(* vocabulary (None: no match inside that token); no match of these        *)
(* patterns spans two tokens of the vocabulary.                            *)
(***************************************************************************)
\* mt_multi: Identifier\s*[:\s]*\s*fin\.(\d{3}(?:\.[A-Z0-9]+)?), no case
IDENTIFIER_FIN_FULL_RE(tok) ==
    CASE tok = "Identifier: fin.202" -> "202"
      [] tok = "Identifier: fin.202.COV" -> "202.COV"
      [] tok = "Identifier: fin.103" -> "103"
      [] tok = "Identifier: fin.103.STP" -> "103.STP"
      [] tok = "Identifier: fin.910" -> "910"
      [] tok = "Identifier: fin.555" -> "555"
      [] tok = "Identifier: fin.2025" -> "202"
      [] OTHER -> None

\* mt_multi: \b(?:FIN|MT)[\s\-\._:\/]*(\d{3})\b, no case.  It also matches
\* the 'fin.ddd' of a header, unless a fourth digit follows.
MT_INLINE_RE(tok) ==
    CASE tok = "Identifier: fin.202" -> "202"
      [] tok = "Identifier: fin.202.COV" -> "202"
      [] tok \in {"Identifier: fin.103", "Identifier: fin.103.STP"} -> "103"
      [] tok = "Identifier: fin.910" -> "910"
      [] tok = "Identifier: fin.555" -> "555"
      [] tok = "MT 910" -> "910"
      [] tok = "MT103" -> "103"
      [] OTHER -> None

\* extractor_manager: \b(?:MT|FIN)[\s\-\_\.:\/]*(\d{3})\b, no case: the same
\* separators as MT_INLINE_RE, hence the same matches.
MT_DETECT(tok) ==
    CASE tok = "Identifier: fin.202" -> "202"
      [] tok = "Identifier: fin.202.COV" -> "202"
      [] tok \in {"Identifier: fin.103", "Identifier: fin.103.STP"} -> "103"
      [] tok = "Identifier: fin.910" -> "910"
      [] tok = "Identifier: fin.555" -> "555"
      [] tok = "MT 910" -> "910"
      [] tok = "MT103" -> "103"
      [] OTHER -> None

\* extractor_manager: Identifier[:\s]*fin[\.:\s\-\/]*(\d{3}), no case
IDENTIFIER_FIN_RE(tok) ==
    CASE tok = "Identifier: fin.202" -> "202"
      [] tok = "Identifier: fin.202.COV" -> "202"
      [] tok \in {"Identifier: fin.103", "Identifier: fin.103.STP"} -> "103"
      [] tok = "Identifier: fin.910" -> "910"
      [] tok = "Identifier: fin.555" -> "555"
      [] tok = "Identifier: fin.2025" -> "202"
      [] OTHER -> None

\* pattern.search(text): the group captured by the first match, or None.
\* groups[k] is the group the pattern captures inside the k-th token.
Search(groups) ==
    LET hits == SelectSeq(groups, LAMBDA g : g # None)
    IN  IF hits = <<>> THEN None ELSE hits[1]

\* mt_multi._detect_mt_type: the header first, then the inline token.
_detect_mt_type(t) ==
    IF t = <<>> THEN None
    ELSE LET m == Search([k \in DOMAIN t |-> IDENTIFIER_FIN_FULL_RE(t[k])])
             m2 == Search([k \in DOMAIN t |-> MT_INLINE_RE(t[k])])
         IN  IF m # None THEN m ELSE m2

\* extractor_manager.detect_message_type: MT_DETECT first, then the header.
detect_message_type(t) ==
    IF t = <<>> THEN None
    ELSE LET m == Search([k \in DOMAIN t |-> MT_DETECT(t[k])])
             m2 == Search([k \in DOMAIN t |-> IDENTIFIER_FIN_RE(t[k])])
         IN  IF m # None THEN m ELSE m2

(***************************************************************************)
(* Texts of the detector study.                                            *)
(***************************************************************************)
DetectTexts ==
    { JoinLines(ls) : ls \in SeqsUpTo(
        { <<>>,
          <<"REF01">>,
          <<"Identifier: fin.202">>,
          <<"Identifier: fin.202.COV">>,
          <<"Identifier: fin.103">>,
          <<"Identifier: fin.910">>,
          <<"Identifier: fin.555">>,
          <<"Identifier: fin.2025">>,
          <<"MT 910">>,
          <<"REF01", "MT103">> },
        MaxLines) }

InitDetect ==
    /\ pc = "ready"
    /\ text \in DetectTexts
    /\ result = None
    /\ PdfIdle

\* The multi-message orchestrator asks for the type of a block.
DetectMulti ==
    /\ pc = "ready"
    /\ result' = _detect_mt_type(text)
    /\ pc' = "multi"
    /\ UNCHANGED <<text, pdf_vars>>

\* The single-file path asks for the type of a document.
DetectSingle ==
    /\ pc = "ready"
    /\ result' = detect_message_type(text)
    /\ pc' = "single"
    /\ UNCHANGED <<text, pdf_vars>>

NextDetect == DetectMulti \/ DetectSingle

SpecDetect == InitDetect /\ [][NextDetect]_vars

(***************************************************************************)
(* Properties of the detectors                                             *)
(***************************************************************************)
\* The tokens of a text in which a header 'Identifier: fin.<code>' occurs.
HeadersOf(t) == SelectSeq(t, LAMBDA tok : tok \in IdentifierTokens)

\* The inline type tokens of a text.
InlinesOf(t) == SelectSeq(t, LAMBDA tok : tok \in InlineTypeTokens)

\* The answer the header-first rule prescribes.
HeaderPreferred(t) ==
    IF HeadersOf(t) # <<>> THEN IDENTIFIER_FIN_FULL_RE(HeadersOf(t)[1])
    ELSE IF InlinesOf(t) # <<>> THEN MT_INLINE_RE(InlinesOf(t)[1])
    ELSE None

\* C8: both detectors return the code of the header 'Identifier: fin.<code>'
\* whenever a header occurs in the text, whatever inline MT###/FIN### token
\* stands before or after it, the digits of the inline token when there is
\* no header, and None when there is neither.
C8_HeaderPreferred_AsStated ==
    pc \in {"multi", "single"} => result = HeaderPreferred(text)

\* C8, for the detector of the multi-message orchestrator alone.
C8_HeaderPreferred_Multi ==
    pc = "multi" => result = HeaderPreferred(text)

C8_Witness ==
    /\ pc = "multi"
    /\ HeadersOf(text) # <<>>
    /\ InlinesOf(text) # <<>>
    /\ text[1] \in InlineTypeTokens
    /\ result = "202.COV"

(***************************************************************************)
(* Fields of a message                                                     *)
(***************************************************************************)
\* Tokens that open a field: a line break followed by one of them is where
\* the lookahead (?=\nF\d{2}[A-Z]?:|\nF\d{2}\b|$) of get_field_block stops.
\* 'F59' opens a field without a colon; 'F58A' does not: after the letter
\* the first alternative wants a colon and the second has ended at 'F58',
\* where no word boundary is.
FieldTagTokens == {"F52A:", "F58A:", "F59:", "F50A:", "F57A:", "F59", "F20:"}

\* The label the strict rule of bic_utils looks for.
_LABEL_TEXT == "IdentifierCode: Code d'identifiant:"

\* The string a token sequence stands for.
RECURSIVE Render(_)
Render(t) ==
    IF t = <<>> THEN ""
    ELSE IF Len(t) = 1 THEN t[1]
    ELSE IF t[1] = NL \/ t[2] = NL THEN t[1] \o Render(Tail(t))
    ELSE t[1] \o " " \o Render(Tail(t))

\* str.splitlines()
Lines(t) ==
    LET breaks == SelectSeq(Indices(t), LAMBDA p : t[p] = NL)
        n == IF t # <<>> /\ t[Len(t)] = NL THEN Len(breaks) ELSE Len(breaks) + 1
    IN  IF t = <<>> THEN <<>>
        ELSE [j \in 1..n |->
                 SubSeq(t, IF j = 1 THEN 1 ELSE breaks[j - 1] + 1,
                           IF j <= Len(breaks) THEN breaks[j] - 1 ELSE Len(t))]

\* The labels callers pass to get_field_block, and for each the tokens in
\* which the text of the label occurs (the search is not anchored: 'F58' is
\* found inside 'F58A:').
LabelIn(label, tok) ==
    <<label, tok>> \in
        { <<"F52A", "F52A:">>, <<"F52A:", "F52A:">>, <<"F58A", "F58A:">>,
          <<"F58", "F58A:">>, <<"F59", "F59:">>, <<"F59:", "F59:">>,
          <<"F59", "F59">>, <<"F58A", "F58A">>, <<"F58", "F58A">>,
          <<"F50A", "F50A:">>, <<"F50", "F50A:">>, <<"Block 4", "Block 4">>,
          <<":20", ":20:">>, <<"F20", "F20:">> }

\* What is left of the token after the label and the [:\s]* that follows it.
LabelRest(label, tok) ==
    IF label \notin {"F58", "F50"} THEN <<>>
    ELSE IF tok = "F58A" THEN <<"A">>
    ELSE <<"A:">>

\* re.search of the label in the text: the positions where it occurs.
FieldLabelAt(t, label) == SelectSeq(Indices(t), LAMBDA p : LabelIn(label, t[p]))

\* Python's 'a or b' on two optional strings, and on two texts.
OrElse(a, b) == IF a # None THEN a ELSE b

OrText(a, b) == IF a # <<>> THEN a ELSE b

\* group(2).strip() of the match at position p: the field runs to the first
\* line break that is followed by a field tag, else to the end of the text.
\* The line breaks that follow the label at once belong to [:\s]* of the
\* first group, which is greedy and never gives them back (the lazy second
\* group always finds its end at $): the field cannot stop on them.  So
\* does the colon that opens the tag ':20:' or ':32A:' when the tag is the
\* first thing after them.
FieldFrom(t, label, p) ==
    LET stops == SelectSeq(Indices(t), LAMBDA k :
                     /\ k > p
                     /\ k < Len(t)
                     /\ t[k] = NL
                     /\ t[k + 1] \in FieldTagTokens
                     /\ \/ LabelRest(label, t[p]) # <<>>
                        \/ \E j \in (p + 1)..k : t[j] # NL)
        Swallowed(body) ==
            IF LabelRest(label, t[p]) # <<>> \/ body = <<>> THEN body
            ELSE IF body[1] = ":20:" THEN <<"20:">> \o Tail(body)
            ELSE IF body[1] = ":32A:" THEN <<"32A:">> \o Tail(body)
            ELSE body
    IN  Swallowed(strip(LabelRest(label, t[p])
              \o SubSeq(t, p + 1, IF stops = <<>> THEN Len(t) ELSE stops[1] - 1)))

\* mt202.get_field_block: the text after the first occurrence of the label,
\* up to the next line that opens a field, stripped.  None (label absent) and
\* the empty string are both rendered <<>>: every caller tests the result for
\* truth only; FieldLabelAt tells them apart.
get_field_block(t, label) ==
    IF FieldLabelAt(t, label) = <<>> THEN <<>>
    ELSE FieldFrom(t, label, FieldLabelAt(t, label)[1])

(***************************************************************************)
(* bic_utils: the BIC workbook and the donor code                          *)
(***************************************************************************)
\* An exception travelling up the call stack, where a string is expected.
Raise == "<raise>"

\* str(e) of the exception pandas raises on a workbook it cannot read.
ExcelError == "Excel file format cannot be determined"

\* code_u[:8]
Key8(code) ==
    CASE code \in {"BEACCMCX091", "BEACCMCXXXX", "BEACCMCX100"} -> "BEACCMCX"
      [] code = "CITIUSNYXXX" -> "CITIUSNY"
      [] code = "INSTITUTION" -> "INSTITUT"
      [] code = "EXPANSION" -> "EXPANSIO"
      [] code \in {"IDENTIFIANT", "IDENTIFIER"} -> "IDENTIFI"
      [] code = "TRANSACTION" -> "TRANSACT"
      [] OTHER -> code

\* The rows of data/bic_codes.xlsx when it is readable: the cells of the
\* code, name and country columns, '' for an empty cell.  The codes are
\* written in capitals without spaces.
Workbook ==
    << [code |-> "BEACCMCX", name |-> "BEAC", country |-> "CMR"],
       [code |-> "CITIUSNY", name |-> "CITIBANK", country |-> ""] >>

\* bic_utils.load_bic_mapping, lines 164-182: the three maps after the rows
\* of a sheet, row after row (mapping: first 8 characters -> name,
\* full: whole code -> name, country: first 8 characters -> country).
RECURSIVE BuildMaps(_, _)
BuildMaps(sheet, maps) ==
    IF sheet = <<>> THEN maps
    ELSE LET raw_code == Head(sheet).code
             raw_name == Head(sheet).name
             raw_country == Head(sheet).country
             key8 == Key8(raw_code)
             mapping == IF raw_name # "" THEN (key8 :> raw_name) @@ maps.mapping
                        ELSE maps.mapping @@ (key8 :> raw_code)
         IN  IF raw_code = "" THEN BuildMaps(Tail(sheet), maps)
             ELSE BuildMaps(Tail(sheet),
                    [ mapping |-> mapping,
                      full |-> IF Len(raw_code) >= 8
                               THEN (raw_code :> (IF raw_name # "" THEN raw_name
                                                  ELSE mapping[key8])) @@ maps.full
                               ELSE maps.full,
                      country |-> IF raw_country # ""
                                  THEN (key8 :> raw_country) @@ maps.country
                                  ELSE maps.country ])

\* code.strip().upper()
StripUpper(code) ==
    CASE code = " beaccmcx100" -> "BEACCMCX100"
      [] code = "beaccmcx" -> "BEACCMCX"
      [] OTHER -> code

\* map_code_to_name with the two look-ups exchanged: the first 8 characters
\* before the whole code.
NameIn_prefix_first(code, maps) ==
    IF Key8(StripUpper(code)) \in DOMAIN maps.mapping
    THEN maps.mapping[Key8(StripUpper(code))]
    ELSE IF /\ StripUpper(code) \in DOMAIN maps.full
            /\ maps.full[StripUpper(code)] # ""
    THEN maps.full[StripUpper(code)]
    ELSE None

\* bic_utils.map_code_to_name, lines 203-210, on the maps of a loaded sheet.
NameIn(code, maps) ==
    IF /\ StripUpper(code) \in DOMAIN maps.full
       /\ maps.full[StripUpper(code)] # ""
    THEN maps.full[StripUpper(code)]
    ELSE IF Key8(StripUpper(code)) \in DOMAIN maps.mapping
    THEN maps.mapping[Key8(StripUpper(code))]
    ELSE None

\* The name and the country the readable workbook gives.
SheetName(code) ==
    NameIn(code, BuildMaps(Workbook, [mapping |-> <<>>, full |-> <<>>, country |-> <<>>]))

SheetCountry(key) ==
    LET country == BuildMaps(Workbook, [mapping |-> <<>>, full |-> <<>>,
                                          country |-> <<>>]).country
    IN  IF key \in DOMAIN country THEN country[key] ELSE None

\* bic_utils.load_bic_mapping: the caches after the call ("unset": the three
\* module globals are None, "empty": {}, "loaded": the rows of the workbook),
\* or Raise.  Caches that are set are returned whatever the path.
load_bic_mapping(cache, xlsx) ==
    IF cache # "unset" THEN cache
    ELSE IF xlsx = "missing" THEN "empty"
    ELSE IF xlsx = "corrupt" THEN Raise
    ELSE "loaded"

\* bic_utils.map_code_to_name
map_code_to_name(code, cache, xlsx) ==
    IF code = None THEN None
    ELSE LET loaded == load_bic_mapping(cache, xlsx)
         IN  IF loaded = Raise THEN Raise
             ELSE IF loaded = "loaded" THEN SheetName(code)
             ELSE None

\* bic_utils.map_code_to_country
map_code_to_country(code, cache, xlsx) ==
    IF code = None THEN None
    ELSE LET loaded == load_bic_mapping(cache, xlsx)
         IN  IF loaded = Raise THEN Raise
             ELSE IF loaded = "loaded" THEN SheetCountry(Key8(code))
             ELSE None

\* re.findall(r'[A-Z]+', cand.upper()) kept to its first run of 8..11
\* letters (_STRICT_TOKEN_RE), per token.
_STRICT_TOKEN_RE(tok) ==
    CASE tok \in IdentifierTokens \cup UmiTokens -> "IDENTIFIER"
      [] tok = "Transaction Reference: REF01" -> "TRANSACTION"
      [] tok \in {_LABEL_TEXT, "Code d'identifiant:"} -> "IDENTIFIANT"
      [] tok \in {"BEACCMCX", "BEACCMCX091"} -> "BEACCMCX"
      [] tok \in {"CITIUSNY", "BEACCMCXXXX", "CITIUSNYXXX"} -> tok
      [] tok = "Sender Institution:" -> "INSTITUTION"
      [] tok = "Receiver Institution:" -> "RECEIVER"
      [] tok \in {"Expansion: BEAC", "Expansion: CITI"} -> "EXPANSION"
      [] OTHER -> None

\* \b([A-Z0-9]{8,11})\b without case, upper-cased: the first such word of a token.
_FALLBACK_TOKEN_RE(tok) ==
    CASE tok \in IdentifierTokens \cup UmiTokens -> "IDENTIFIER"
      [] tok = "Transaction Reference: REF01" -> "TRANSACTION"
      [] tok \in {_LABEL_TEXT, "Code d'identifiant:"} -> "IDENTIFIANT"
      [] tok \in {"BEACCMCX", "CITIUSNY", "BEACCMCX091", "BEACCMCXXXX", "CITIUSNYXXX",
                  "BEACCM2X"} -> tok
      [] tok = "Sender Institution:" -> "INSTITUTION"
      [] tok = "Receiver Institution:" -> "RECEIVER"
      [] tok \in {"Expansion: BEAC", "Expansion: CITI"} -> "EXPANSION"
      [] OTHER -> None

\* re.fullmatch(r'[A-Z]{8,11}', word)
LettersOnly(word) ==
    word \in {"IDENTIFIER", "TRANSACTION", "IDENTIFIANT", "BEACCMCX", "CITIUSNY",
              "BEACCMCXXXX", "CITIUSNYXXX", "INSTITUTION", "RECEIVER", "EXPANSION"}

SearchFallback(t) == Search([k \in DOMAIN t |-> _FALLBACK_TOKEN_RE(t[k])])

\* What stands after the label on a line that holds it.
AfterLabel(ln) ==
    LET at == SelectSeq(Indices(ln), LAMBDA p : ln[p] = _LABEL_TEXT)
    IN  SubSeq(ln, at[1] + 1, Len(ln))

\* lines[i] when there is such a line.
LineAt(lines, i) == IF i <= Len(lines) THEN lines[i] ELSE <<>>

\* The candidates after the label of line i, in the order they are tried.
StrictFrom(lines, i) ==
    LET cands == AfterLabel(lines[i]) \o LineAt(lines, i + 1) \o LineAt(lines, i + 2)
    IN  Search([k \in DOMAIN cands |-> _STRICT_TOKEN_RE(cands[k])])

\* bic_utils._find_strict_identifier_in_f52: after the first line holding the
\* label, the rest of that line then the next two lines are searched, in this
\* order, for a run of 8 to 11 letters.
_find_strict_identifier_in_f52(f) ==
    LET lines == Lines(f)
        labelled == SelectSeq(Indices(lines), LAMBDA i :
                        \E p \in DOMAIN lines[i] : lines[i][p] = _LABEL_TEXT)
    IN  IF labelled = <<>> THEN None ELSE StrictFrom(lines, labelled[1])

\* A donor "CODE/Name" or "CODE" as the pair of its parts (name None when the
\* string has no '/'), code None for Python's None; raised when the call
\* ended with an exception.
Donor(code, name) == [code |-> code, name |-> name, raised |-> FALSE]

NoDonor == [code |-> None, name |-> None, raised |-> FALSE]

DonorRaised == [code |-> None, name |-> None, raised |-> TRUE]

\* The string the pair stands for.
DonorString(d) ==
    IF d.code = None THEN None
    ELSE IF d.name = None THEN d.code
    ELSE d.code \o "/" \o d.name

\* Lines 232-247: the code, from the F52 text by the strict rule, else from
\* the message by the strict rule, else the fallback token of the F52 text
\* if it is all letters.
DonorCode(f52_text, message_text) ==
    OrElse(OrElse(_find_strict_identifier_in_f52(f52_text),
                  _find_strict_identifier_in_f52(message_text)),
           IF LettersOnly(SearchFallback(f52_text)) THEN SearchFallback(f52_text)
           ELSE None)

\* Lines 248-253: the code with the name the workbook gives it.
DonorNamed(code, cache, xlsx) ==
    IF code = None THEN NoDonor
    ELSE IF map_code_to_name(code, cache, xlsx) = Raise THEN DonorRaised
    ELSE Donor(code, map_code_to_name(code, cache, xlsx))

\* bic_utils.get_donneur_from_f52
get_donneur_from_f52(f52_text, message_text, cache, xlsx) ==
    DonorNamed(DonorCode(f52_text, message_text), cache, xlsx)

(***************************************************************************)
(* Records                                                                 *)
(***************************************************************************)
\* row[key] = value on a dict.
Put(row, key, value) == (key :> value) @@ row

\* row.get(key)
Get(row, key) == (row @@ (key :> None))[key]

\* An exception raised by an extractor, with its str().
Raised(message) == [exception |-> message]

IsRaised(outcome) == "exception" \in DOMAIN outcome

(***************************************************************************)
(* mt202: helpers shared by the three extractors                           *)
(*                                                                         *)
(* The messages of the vocabulary carry no 'Receiver:' header, no F20 or   *)
(* ':20:' tag, no F32A tag and no 'Date', 'Devise', 'Currency', 'Montant'  *)
(* or 'Amount' label: of each parser the branches below are the ones such  *)
(* a message can take.                                                     *)
(***************************************************************************)
\* mt202.MT_RE and the same pattern of mt103: \b(?:MT|FIN)[\s\-_]*(\d{3})\b.
\* The '.' of a header 'fin.202' is not among its separators.
MT_RE(tok) ==
    CASE tok = "MT 910" -> "910"
      [] tok = "MT103" -> "103"
      [] OTHER -> None

\* mt202.BIC_RE: \b[A-Z]{4}[A-Z]{2}[A-Z0-9]{2}(?:[A-Z0-9]{3})?\b
BIC_RE(tok) ==
    IF tok \in {"BEACCMCX", "CITIUSNY", "BEACCMCX091", "BEACCMCXXXX", "CITIUSNYXXX",
                "BEACCM2X"}
    THEN tok ELSE None

\* (\d{6}): the first run of six digits of a token.
SixDigits(tok) ==
    CASE tok = "/CM2112345678" -> "211234"
      [] tok = "250101XAF1000,50" -> "250101"
      [] OTHER -> None

\* \b([A-Z]{3})\b: the first word of three capitals of a token.
UpperWord3(tok) ==
    CASE tok = "Identifier: fin.202.COV" -> "COV"
      [] tok = "Identifier: fin.103.STP" -> "STP"
      [] tok \in {"XAF", "SHA"} -> tok
      [] OTHER -> None

\* ([0-9]+(?:[.,\s][0-9]{1,3})*(?:[.,][0-9]{1,2})?): the numbers of a token.
Numbers(tok) ==
    CASE tok \in {"Identifier: fin.202", "Identifier: fin.202.COV"} -> <<"202">>
      [] tok \in {"Identifier: fin.103", "Identifier: fin.103.STP", "MT103"} -> <<"103">>
      [] tok \in {"Identifier: fin.910", "MT 910"} -> <<"910">>
      [] tok = "Identifier: fin.555" -> <<"555">>
      [] tok = "Identifier: fin.2025" -> <<"2025">>
      [] tok \in {"REF01", "Transaction Reference: REF01"} -> <<"01">>
      [] tok = "F52A:" -> <<"52">>
      [] tok = "F58A:" -> <<"58">>
      [] tok = "F59:" -> <<"59">>
      [] tok = "F50A:" -> <<"50">>
      [] tok = "F57A:" -> <<"57">>
      [] tok = "/CM2112345678" -> <<"2112345678">>
      [] tok = "BEACCMCX091" -> <<"091">>
      [] tok = "BEACCM2X" -> <<"2">>
      [] tok = "Block 4" -> <<"4">>
      [] tok = ":32A:" -> <<"32">>
      [] tok = "1000,50" -> <<"1000,50">>
      [] tok = "250101XAF1000,50" -> <<"250101", "1000,50">>
      [] tok = "Message 1" -> <<"1">>
      [] tok = ":20:" -> <<"20">>
      [] OTHER -> <<>>

\* len(re.sub(r'[^0-9]', '', s))
digits_len(s) == IF s = "1000,50" THEN 6 ELSE Len(s)

\* The ten digits in order: int(c) is the place of c, less one.
DigitChars == <<"0", "1", "2", "3", "4", "5", "6", "7", "8", "9">>

\* The characters of the numbers of the vocabulary: parse_amount and
\* parse_date_YYMMDD work on a string character by character.  None is
\* rendered as the empty string; both functions test 'not s' first.
Characters(s) ==
    CASE s = "1000,50" -> <<"1", "0", "0", "0", ",", "5", "0">>
      [] s = "250101" -> <<"2", "5", "0", "1", "0", "1">>
      [] s = "211234" -> <<"2", "1", "1", "2", "3", "4">>
      [] s = "2112345678" -> <<"2", "1", "1", "2", "3", "4", "5", "6", "7", "8">>
      [] s = "2025" -> <<"2", "0", "2", "5">>
      [] s = "202" -> <<"2", "0", "2">>
      [] s = "103" -> <<"1", "0", "3">>
      [] s = "910" -> <<"9", "1", "0">>
      [] s = "555" -> <<"5", "5", "5">>
      [] s = "091" -> <<"0", "9", "1">>
      [] s = "01" -> <<"0", "1">>
      [] s = "52" -> <<"5", "2">>
      [] s = "58" -> <<"5", "8">>
      [] s = "59" -> <<"5", "9">>
      [] s = "50" -> <<"5", "0">>
      [] s = "57" -> <<"5", "7">>
      [] s = "32" -> <<"3", "2">>
      [] s = "20" -> <<"2", "0">>
      [] s = "4" -> <<"4">>
      [] s = "2" -> <<"2">>
      [] s = "1" -> <<"1">>
      [] OTHER -> <<>>

\* ''.join(chars)
RECURSIVE Concat(_)
Concat(chars) == IF chars = <<>> THEN "" ELSE Head(chars) \o Concat(Tail(chars))

\* parse_amount that takes the comma for the decimal separator whenever the
\* string has both separators, wherever they stand.
parse_amount_comma_decimal(s) ==
    LET count(x, c) == Len(SelectSeq(x, LAMBDA e : e = c))
        rfind(x, c) == IF count(x, c) = 0 THEN 0
                       ELSE CHOOSE k \in DOMAIN x :
                              x[k] = c /\ \A j \in DOMAIN x : x[j] = c => j <= k
        remove(x, c) == SelectSeq(x, LAMBDA e : e # c)
        replace(x, a, b) == [k \in 1..Len(x) |-> IF x[k] = a THEN b ELSE x[k]]
        float(x) ==
            LET point == IF count(x, ".") = 0 THEN Len(x) + 1 ELSE rfind(x, ".")
                whole == SubSeq(x, 1, point - 1)
                frac == SubSeq(x, point + 1, Len(x))
                lead == SelectSeq(Indices(whole), LAMBDA k : whole[k] # "0")
                trail == SelectSeq(Indices(frac), LAMBDA k : frac[k] # "0")
            IN  IF count(x, ".") > 1 \/ count(x, ",") > 0 \/ Len(x) = count(x, ".")
                THEN None
                ELSE Concat(IF lead = <<>> THEN <<"0">>
                            ELSE SubSeq(whole, lead[1], Len(whole)))
                     \o "."
                     \o Concat(IF trail = <<>> THEN <<"0">>
                               ELSE SubSeq(frac, 1, trail[Len(trail)]))
    IN  IF s = <<>> THEN None
        ELSE IF count(s, ",") > 0 /\ count(s, ".") > 0
        THEN float(replace(remove(s, "."), ",", "."))
        ELSE IF count(s, ",") > 0
        THEN IF Len(s) - rfind(s, ",") \in {1, 2}
             THEN float(replace(remove(s, "."), ",", "."))
             ELSE float(remove(s, ","))
        ELSE float(s)

\* mt202.parse_amount on the characters of s (digits, ',' and '.': the
\* vocabulary has no blank, no sign and no other character for lines 83-86
\* to remove), as the repr of the float it returns.  float() takes digits
\* with at most one point and at least one digit; every value of the model
\* lies between 1e-4 and 1e16, where repr is positional and exact.
parse_amount(s) ==
    LET count(x, c) == Len(SelectSeq(x, LAMBDA e : e = c))
        rfind(x, c) == IF count(x, c) = 0 THEN 0
                       ELSE CHOOSE k \in DOMAIN x :
                              x[k] = c /\ \A j \in DOMAIN x : x[j] = c => j <= k
        remove(x, c) == SelectSeq(x, LAMBDA e : e # c)
        replace(x, a, b) == [k \in 1..Len(x) |-> IF x[k] = a THEN b ELSE x[k]]
        float(x) ==
            LET point == IF count(x, ".") = 0 THEN Len(x) + 1 ELSE rfind(x, ".")
                whole == SubSeq(x, 1, point - 1)
                frac == SubSeq(x, point + 1, Len(x))
                lead == SelectSeq(Indices(whole), LAMBDA k : whole[k] # "0")
                trail == SelectSeq(Indices(frac), LAMBDA k : frac[k] # "0")
            IN  IF count(x, ".") > 1 \/ count(x, ",") > 0 \/ Len(x) = count(x, ".")
                THEN None
                ELSE Concat(IF lead = <<>> THEN <<"0">>
                            ELSE SubSeq(whole, lead[1], Len(whole)))
                     \o "."
                     \o Concat(IF trail = <<>> THEN <<"0">>
                               ELSE SubSeq(frac, 1, trail[Len(trail)]))
    IN  IF s = <<>> THEN None
        ELSE IF count(s, ",") > 0 /\ count(s, ".") > 0
        THEN IF rfind(s, ",") > rfind(s, ".")
             THEN float(replace(remove(s, "."), ",", "."))
             ELSE float(remove(s, ","))
        ELSE IF count(s, ",") > 0
        THEN IF Len(s) - rfind(s, ",") \in {1, 2}
             THEN float(replace(remove(s, "."), ",", "."))
             ELSE float(remove(s, ","))
        ELSE float(s)

\* parse_date_YYMMDD with a calendar that gives February 28 days every year.
parse_date_YYMMDD_no_leap(s) ==
    LET int(c) == (CHOOSE n \in 1..10 : DigitChars[n] = c) - 1
        two(n) == DigitChars[(n \div 10) + 1] \o DigitChars[(n % 10) + 1]
        days(mm) == IF mm = 2 THEN 28 ELSE IF mm \in {4, 6, 9, 11} THEN 30 ELSE 31
        isoformat(year, mm, dd) ==
            IF mm \in 1..12 /\ dd \in 1..days(mm)
            THEN two(year \div 100) \o two(year % 100) \o "-" \o two(mm)
                 \o "-" \o two(dd)
            ELSE None
    IN  IF /\ Len(s) = 6
           /\ \A k \in 1..6 : \E n \in 1..10 : DigitChars[n] = s[k]
        THEN isoformat(2000 + 10 * int(s[1]) + int(s[2]),
                       10 * int(s[3]) + int(s[4]),
                       10 * int(s[5]) + int(s[6]))
        ELSE None

\* mt202.parse_date_YYMMDD on the characters of s, lines 113-122: six digits
\* give datetime(2000 + yy, mm, dd).date().isoformat(), or None when
\* datetime raises ValueError (no such month, no such day in the month; the
\* year is a leap year when 4 divides it, unless 100 does and 400 does not).
\* No caller passes anything but six digits or None (lines 123-127).
parse_date_YYMMDD(s) ==
    LET int(c) == (CHOOSE n \in 1..10 : DigitChars[n] = c) - 1
        two(n) == DigitChars[(n \div 10) + 1] \o DigitChars[(n % 10) + 1]
        isleap(year) == year % 4 = 0 /\ (year % 100 # 0 \/ year % 400 = 0)
        days(year, mm) == IF mm = 2 THEN (IF isleap(year) THEN 29 ELSE 28)
                          ELSE IF mm \in {4, 6, 9, 11} THEN 30
                          ELSE 31
        isoformat(year, mm, dd) ==
            IF mm \in 1..12 /\ dd \in 1..days(year, mm)
            THEN two(year \div 100) \o two(year % 100) \o "-" \o two(mm)
                 \o "-" \o two(dd)
            ELSE None
    IN  IF /\ Len(s) = 6
           /\ \A k \in 1..6 : \E n \in 1..10 : DigitChars[n] = s[k]
        THEN isoformat(2000 + 10 * int(s[1]) + int(s[2]),
                       10 * int(s[3]) + int(s[4]),
                       10 * int(s[5]) + int(s[6]))
        ELSE None

VALID_CURRENCIES ==
    { "USD", "EUR", "GBP", "JPY", "CHF", "CAD", "AUD", "NZD", "CNY", "INR",
      "RUB", "BRL", "MXN", "SGD", "HKD", "KRW", "XAF", "XOF", "XPF", "CFA",
      "ZAR", "NGN", "KES", "EGP", "TND", "MAD", "AED", "SAR", "ILS", "THB",
      "MYR", "PHP", "IDR", "VND", "PKR", "BDT", "LKR" }

\* The tokens of a text, each replaced by the list of its numbers, flattened.
RECURSIVE AllNumbers(_)
AllNumbers(t) == IF t = <<>> THEN <<>> ELSE Numbers(Head(t)) \o AllNumbers(Tail(t))

\* max(nums, key=digits_len): the first of the longest.
Longest(nums) ==
    LET best == SelectSeq(nums, LAMBDA n :
                    \A k \in DOMAIN nums : digits_len(nums[k]) <= digits_len(n))
    IN  IF nums = <<>> THEN None ELSE best[1]

\* mt202.detect_country_from_text: the first two-letter word that is a key of
\* CEMAC_MAP (no token of the vocabulary holds one of the longer names).
detect_country_from_text(t) ==
    Search([k \in DOMAIN t |-> IF t[k] = "GA" THEN "GAB" ELSE None])

\* mt202.extract_receiver_bic: the first BIC-looking token of what follows
\* the first 'Receiver' up to a line that begins with a capital and a small
\* letter; else of what follows that 'Receiver' (every text is shorter than
\* the 400 characters of line 337); else of the document.
extract_receiver_bic(t) ==
    LET at == SelectSeq(Indices(t), LAMBDA p : t[p] = "Receiver Institution:")
        Capitalised(tok) ==
            tok \in IdentifierTokens \cup UmiTokens \cup
                    {"Message 1", "Sender:", "Sender Institution:",
                     "Receiver Institution:", "Block 4", "Report",
                     "Transaction Reference: REF01", "Expansion: BEAC",
                     "Expansion: CITI"}
        stops(p) == SelectSeq(Indices(t), LAMBDA k :
                        k > p /\ k < Len(t) /\ t[k] = NL /\ Capitalised(t[k + 1]))
        part(p) == SubSeq(t, p + 1, IF stops(p) = <<>> THEN Len(t) ELSE stops(p)[1] - 1)
        Bic(s) == Search([k \in DOMAIN s |-> BIC_RE(s[k])])
    IN  IF at = <<>> THEN Bic(t)
        ELSE OrElse(OrElse(Bic(part(at[1])), Bic(SubSeq(t, at[1], Len(t)))), Bic(t))

\* (?mi)Transaction\s+Reference\s*[:\s]*([A-Z0-9\-\_]{3,})
TransactionReference(tok) ==
    IF tok = "Transaction Reference: REF01" THEN "REF01" ELSE None

_looks_like_amount(s) == s \in {"1000,50"}

\* ([A-Z0-9\-\_]{3,}) without case, upper-cased: the first such word of a
\* token of a text that holds an F20 or ':20:' tag.
ReferenceToken(tok) ==
    CASE tok = "abc123" -> "ABC123"
      [] tok \in {"REF01", "BEACCMCX"} -> tok
      [] tok = "1000,50" -> "1000"
      [] tok = "F52A:" -> "F52A"
      [] tok = "F20:" -> "F20"
      [] tok = "Transaction Reference: REF01" -> "TRANSACTION"
      [] OTHER -> None

\* mt202.extract_transaction_reference.
\*   1) lines 181-218: the first line of block4_text that starts with the
\*      tag; the candidate is the rest of that line, else the next line that
\*      is not blank; its first word is returned unless it looks like an
\*      amount (no line of the vocabulary starts with a blank, which the
\*      branch of lines 201-218 is for);
\*   2) lines 220-225: the header 'Transaction Reference: TOKEN';
\*   3) lines 227-242: the first tag of full_text that ends its line; the
\*      first word of the next line that is not blank, unless that line looks
\*      like an amount.
extract_transaction_reference(full_text, block4_text) ==
    LET Word(cand) ==
            IF \E k \in DOMAIN cand : _looks_like_amount(cand[k]) THEN None
            ELSE Search([k \in DOMAIN cand |-> ReferenceToken(cand[k])])
        NotBlank(lines) == SelectSeq(lines, LAMBDA ln : ln # <<>>)
        FirstOf(lines) == IF lines = <<>> THEN <<>> ELSE lines[1]
        tagged == SelectSeq(Indices(Lines(block4_text)), LAMBDA i :
                      /\ Lines(block4_text)[i] # <<>>
                      /\ Lines(block4_text)[i][1] \in {"F20:", ":20:"})
        ends == SelectSeq(Indices(full_text), LAMBDA p :
                      /\ full_text[p] \in {"F20:", ":20:"}
                      /\ AtLineEnd(full_text, p))
        header == Search([k \in DOMAIN full_text |-> TransactionReference(full_text[k])])
        step1 == IF tagged = <<>> THEN None
                 ELSE IF Tail(Lines(block4_text)[tagged[1]]) # <<>>
                      THEN Word(Tail(Lines(block4_text)[tagged[1]]))
                 ELSE Word(FirstOf(NotBlank(SubSeq(Lines(block4_text), tagged[1] + 1,
                                                   Len(Lines(block4_text))))))
    IN  IF step1 # None THEN step1
        ELSE IF header # None /\ ~_looks_like_amount(header) THEN header
        ELSE IF ends = <<>> THEN None
        ELSE Word(FirstOf(NotBlank(Lines(SubSeq(full_text, ends[1] + 1,
                                                Len(full_text))))))

\* mt202.parse_reference, and lines 372-378 of extract_from_text, which
\* compute the same: the block searched first is the F20 field, else the
\* ':20' field, else 'Block 4', else the whole text.
parse_reference(t) ==
    extract_transaction_reference(
        t, OrText(OrText(OrText(get_field_block(t, "F20"), get_field_block(t, ":20")),
                         get_field_block(t, "Block 4")),
                  t))

SearchSixDigits(t) == Search([k \in DOMAIN t |-> SixDigits(t[k])])

SearchUpperWord3(t) == Search([k \in DOMAIN t |-> UpperWord3(t[k])])

\* blk = get_field_block(text, 'F32A') or text
F32aBlock(t) == OrText(get_field_block(t, "F32A"), t)

\* mt202.parse_f32a: the block is the F32A field or else the whole text; the
\* date is the first six digits, the currency the first three-capital word
\* if it is a valid code, the amount the longest number.
parse_f32a(t) ==
    [ date_reference |-> parse_date_YYMMDD(Characters(SearchSixDigits(F32aBlock(t)))),
      devise |-> IF SearchUpperWord3(F32aBlock(t)) \in VALID_CURRENCIES
                 THEN SearchUpperWord3(F32aBlock(t)) ELSE None,
      montant |-> parse_amount(Characters(Longest(AllNumbers(F32aBlock(t))))) ]

\* mt103.parse_f32a_103: as parse_f32a, but any three-capital word is taken
\* for the currency.
parse_f32a_103(t) ==
    [ date_reference |-> parse_date_YYMMDD(Characters(SearchSixDigits(F32aBlock(t)))),
      devise |-> SearchUpperWord3(F32aBlock(t)),
      montant |-> parse_amount(Characters(Longest(AllNumbers(F32aBlock(t))))) ]

(***************************************************************************)
(* The type-specific extractors                                            *)
(***************************************************************************)
\* The first line of a field that is not blank, as the string it stands for.
FirstLine(blk) ==
    LET lines == SelectSeq(Lines(blk), LAMBDA ln : ln # <<>>)
    IN  IF lines = <<>> THEN None ELSE Render(lines[1])

\* f"fin.{m.group(1)}" when the pattern matched.
FinType(m, default) == IF m # None THEN "fin." \o m ELSE default

\* mt202.extract_block.  load_bic_mapping raising inside get_donneur_from_f52
\* is caught there (donneur = None).
mt202_extract_block(t, source, cache, xlsx) ==
    [ type_MT |-> FinType(Search([k \in DOMAIN t |-> MT_RE(t[k])]), None),
      code_banque |-> extract_receiver_bic(t),
      sender_bic |-> None,
      receiver_bic |-> extract_receiver_bic(t),
      reference |-> parse_reference(t),
      date_reference |-> parse_f32a(t).date_reference,
      devise |-> parse_f32a(t).devise,
      montant |-> parse_f32a(t).montant,
      donneur_dordre |->
          IF get_donneur_from_f52(get_field_block(t, "F52A"), t, cache, xlsx).raised
          THEN None
          ELSE DonorString(get_donneur_from_f52(get_field_block(t, "F52A"), t,
                                                cache, xlsx)),
      beneficiaire |->
          FirstLine(OrText(get_field_block(t, "F59"), get_field_block(t, "F58"))),
      pays_iso3 |-> None,
      source_pdf |-> source ]

\* ^\s*\/?([A-Z]{2}[0-9A-Z]{8,34})\b at the start of a line, then
\* \/([A-Z]{2}[0-9A-Z]{8,34}) and ([A-Z]{2}[0-9A-Z]{8,34}) anywhere (the last
\* captures from a token what the first does).
AccountAtStart(tok) ==
    CASE tok = "/CM2112345678" -> "CM2112345678"
      [] tok \in {"BEACCMCX091", "BEACCMCXXXX", "CITIUSNYXXX"} -> tok
      [] OTHER -> None

AccountAfterSlash(tok) == IF tok = "/CM2112345678" THEN "CM2112345678" ELSE None

\* The three patterns of parse_f59_account, tried in order on the field.
AccountIn(blk) ==
    OrElse(OrElse(Search([k \in DOMAIN blk |->
                      IF AtLineStart(blk, k) THEN AccountAtStart(blk[k]) ELSE None]),
                  Search([k \in DOMAIN blk |-> AccountAfterSlash(blk[k])])),
           Search([k \in DOMAIN blk |-> AccountAtStart(blk[k])]))

\* mt103.parse_f59_account
parse_f59_account(t) == AccountIn(get_field_block(t, "F59"))

\* Lines 117-130: the first two lines of the F50F (else F50) field.
NameFromF50(t) ==
    LET name_candidates ==
            SelectSeq(Lines(OrText(get_field_block(t, "F50F"), get_field_block(t, "F50"))),
                      LAMBDA ln : ln # <<>>)
    IN  IF name_candidates = <<>> THEN None
        ELSE IF Len(name_candidates) = 1 THEN Render(name_candidates[1])
        ELSE Render(name_candidates[1]) \o " " \o Render(name_candidates[2])

\* Lines 83-89, then the fallback of lines 116-132.
InstitutionFrom(f52, t, cache, xlsx) ==
    IF f52 = <<>> THEN NameFromF50(t)
    ELSE IF get_donneur_from_f52(f52, t, cache, xlsx).raised THEN Raise
    ELSE IF get_donneur_from_f52(f52, t, cache, xlsx).code # None
         THEN DonorString(get_donneur_from_f52(f52, t, cache, xlsx))
    ELSE NameFromF50(t)

\* mt103.parse_f52a_or_f50f_institution.  The call of get_donneur_from_f52
\* is not guarded: an exception of load_bic_mapping leaves the extractor.
\* An F52A field of the vocabulary always holds a word of 8 to 11 letters,
\* so the name-lines fallback on F52A is never reached; the fallback on
\* F50F/F50 joins the first two lines of that field.
parse_f52a_or_f50f_institution(t, cache, xlsx) ==
    InstitutionFrom(get_field_block(t, "F52A"), t, cache, xlsx)

\* mt103.extract_block: a row, or the exception that left it.
mt103_extract_block(t, source, cache, xlsx) ==
    IF parse_f52a_or_f50f_institution(t, cache, xlsx) = Raise THEN Raised(ExcelError)
    ELSE [ type_MT |-> FinType(Search([k \in DOMAIN t |-> MT_RE(t[k])]), "fin.103"),
           code_banque |-> extract_receiver_bic(t),
           sender_bic |-> None,
           receiver_bic |-> extract_receiver_bic(t),
           reference |-> parse_reference(t),
           date_reference |-> parse_f32a_103(t).date_reference,
           devise |-> parse_f32a_103(t).devise,
           montant |-> parse_f32a_103(t).montant,
           donneur_dordre |-> parse_f52a_or_f50f_institution(t, cache, xlsx),
           beneficiaire |-> parse_f59_account(t),
           pays_iso3 |-> detect_country_from_text(t),
           source_pdf |-> source ]

\* str(e) of the UnboundLocalError of mt910._extract_from_text.
UnboundDateIso ==
    "cannot access local variable 'date_iso' where it is not associated with a value"

\* mt910._parse_block4: what follows 'Block 4', to the end of the text.
_parse_block4(t) ==
    LET at == SelectSeq(Indices(t), LAMBDA p : t[p] = "Block 4")
    IN  IF at = <<>> THEN <<>> ELSE strip(SubSeq(t, at[1] + 1, Len(t)))

\* mt910._extract_tag_from_block4 for tag 32A: the rest of the first line
\* that begins with ':32A:'.
_extract_tag_from_block4(block4) ==
    LET lines == SelectSeq(Lines(block4), LAMBDA ln : ln # <<>> /\ ln[1] = ":32A:")
    IN  IF lines = <<>> THEN <<>> ELSE Tail(lines[1])

\* mt910._extract_sender_receiver_header, one of the two blocks: what follows
\* the label, from its first character that is not white space to the first
\* stop after that character ('Receiver Institution:' or 'Block 4' for the
\* sender, 'Block 4' for the receiver), else to the end; stripped.
HeaderBlock(t, label, stops) ==
    LET at == SelectSeq(Indices(t), LAMBDA p : t[p] = label)
        start == SelectSeq(Indices(t), LAMBDA s : s > at[1] /\ t[s] # NL)
        end == SelectSeq(Indices(t), LAMBDA q : q > start[1] /\ t[q] \in stops)
    IN  IF at = <<>> \/ start = <<>> THEN <<>>
        ELSE strip(SubSeq(t, start[1], IF end = <<>> THEN Len(t) ELSE end[1] - 1))

\* mt910._find_code11_in_block: the first word of exactly 11 letters or
\* digits, case ignored, upper-cased (each such word of the vocabulary holds
\* a letter).
_find_code11_in_block(block_text) ==
    LET Code11(tok) ==
            CASE tok \in {"BEACCMCX091", "BEACCMCXXXX", "CITIUSNYXXX"} -> tok
              [] tok \in {_LABEL_TEXT, "Code d'identifiant:"} -> "IDENTIFIANT"
              [] tok = "Transaction Reference: REF01" -> "TRANSACTION"
              [] tok \in {"Sender Institution:", "Receiver Institution:"} -> "INSTITUTION"
              [] OTHER -> None
    IN  Search([k \in DOMAIN block_text |-> Code11(block_text[k])])

\* mt910._extract_expansion_name: what follows the first 'Expansion:' on its
\* line.
_extract_expansion_name(block_text) ==
    LET Name(tok) ==
            CASE tok = "Expansion: BEAC" -> "BEAC"
              [] tok = "Expansion: CITI" -> "CITI"
              [] OTHER -> None
        at == SelectSeq(Indices(block_text), LAMBDA p : Name(block_text[p]) # None)
        eol == SelectSeq(Indices(block_text), LAMBDA q : q > at[1] /\ block_text[q] = NL)
    IN  IF at = <<>> THEN None
        ELSE Render(<<Name(block_text[at[1]])>>
                    \o SubSeq(block_text, at[1] + 1,
                              IF eol = <<>> THEN Len(block_text) ELSE eol[1] - 1))

\* mt910._format_code_and_name
_format_code_and_name(code, name) ==
    IF code = None THEN name
    ELSE IF name = None THEN code
    ELSE code \o "/" \o name

\* Lines 144-161 and 170-186: the party a header block names, "[CODE]/[NAME]"
\* or, when the block has neither, its first two lines (no line holds a code
\* then).
PartyOf(block_text) ==
    LET lines == SelectSeq(Lines(block_text), LAMBDA ln : ln # <<>>)
    IN  OrElse(_format_code_and_name(_find_code11_in_block(block_text),
                                     _extract_expansion_name(block_text)),
               IF lines = <<>> THEN None
               ELSE IF Len(lines) = 1 THEN Render(lines[1])
               ELSE Render(lines[1]) \o " / " \o Render(lines[2]))

\* re.match(r'^\s*(\d{6})\s*([A-Z]{3})\s*([0-9\.,]+)\s*$', tag32)
Tag32Strict(tag32) == tag32 = <<"250101XAF1000,50">>

\* Lines 209-238 on the value of ':32A:', and the row: a value that the
\* strict pattern rejects and re.search(r'([A-Z]{3})\s*([0-9\.,]+)', tag32)
\* accepts leaves date_iso unbound at line 233.
Row910(m_tr, sender_blk, receiver_blk, tag32, pays_iso3, source) ==
    IF /\ tag32 # <<>>
       /\ ~Tag32Strict(tag32)
       /\ \E p \in DOMAIN tag32 :
              \/ tag32[p] = "250101XAF1000,50"
              \/ p < Len(tag32) /\ tag32[p] = "XAF" /\ tag32[p + 1] = "1000,50"
    THEN Raised(UnboundDateIso)
    ELSE [ type_MT |-> "fin.910",
           code_banque |-> OrElse(_find_code11_in_block(sender_blk),
                                  _find_code11_in_block(receiver_blk)),
           sender_bic |-> _find_code11_in_block(sender_blk),
           receiver_bic |-> _find_code11_in_block(receiver_blk),
           reference |-> m_tr,
           date_reference |-> IF Tag32Strict(tag32) THEN parse_date_YYMMDD(Characters("250101")) ELSE None,
           devise |-> IF Tag32Strict(tag32) THEN "XAF" ELSE None,
           montant |-> IF Tag32Strict(tag32) THEN "1000.5" ELSE None,
           donneur_dordre |-> PartyOf(sender_blk),
           institution_name |->
               _format_code_and_name(_find_code11_in_block(sender_blk),
                                     _extract_expansion_name(sender_blk)),
           beneficiaire |-> PartyOf(receiver_blk),
           pays_iso3 |-> pays_iso3,
           source_pdf |-> source,
           related_reference |-> None,
           sender_account |-> None ]

\* mt910.extract_block: a row, or the exception that left it.  The messages
\* of the vocabulary have no ':20:', ':21:', ':25:' tag and no 'Amount' or
\* 'Value Date' label.
\* On the loose path of ':32A:' (lines 220-228) date_iso is never assigned and
\* line 233 reads it.
mt910_extract_block(t, source) ==
    Row910(Search([k \in DOMAIN t |-> TransactionReference(t[k])]),
           HeaderBlock(t, "Sender Institution:", {"Receiver Institution:", "Block 4"}),
           HeaderBlock(t, "Receiver Institution:", {"Block 4"}),
           _extract_tag_from_block4(_parse_block4(t)),
           detect_country_from_text(t), source)

(***************************************************************************)
(* mt_multi: post-processing                                               *)
(***************************************************************************)
\* bool(value) of an optional string.
Truthy(value) == value # None /\ value # ""

LabelAt(block_text) ==
    SelectSeq(Indices(block_text), LAMBDA p : block_text[p] = _LABEL_TEXT)

NaiveCoded(code_only, cache, xlsx) ==
    Donor(code_only, IF map_code_to_name(code_only, cache, xlsx) = Raise THEN None
                     ELSE map_code_to_name(code_only, cache, xlsx))

\* The fallback of lines 368-383 and 427-442: after the first label
\* 'IdentifierCode' (_LABEL_SEARCH_RE), the first word of 8 to 11 letters
\* or digits (_TOKEN_SEARCH_RE), with its name if the workbook gives one.
\* The label is the head of the token _LABEL_TEXT, so the text searched
\* starts with the rest of that token.
NaiveDonor(block_text, cache, xlsx) ==
    IF LabelAt(block_text) = <<>> THEN NoDonor
    ELSE NaiveCoded(SearchFallback(<<"Code d'identifiant:">>
                                   \o SubSeq(block_text, LabelAt(block_text)[1] + 1,
                                             Len(block_text))),
                    cache, xlsx)

\* name_only if name_only else code_only
NameOrCode(d) == IF Truthy(d.name) THEN d.name ELSE d.code

\* if not row.get("code_banque"): row["code_banque"] = code_only
FillBankCode(row, code) ==
    IF Truthy(Get(row, "code_banque")) THEN row ELSE Put(row, "code_banque", code)

\* Lines 385-397 and 444-460: the donor written into the row.
WithDonor(row, d) ==
    IF d.code = None THEN row
    ELSE FillBankCode(Put(Put(Put(row, "code_donneur_dordre", d.code),
                              "donneur_dordre", NameOrCode(d)),
                          "institution_name", NameOrCode(d)),
                      d.code)

\* Lines 363-383 and 424-442: the strict result, else the naive fallback.
OrNaive(found, block_text, cache, xlsx) ==
    IF found.raised \/ found.code = None THEN NaiveDonor(block_text, cache, xlsx)
    ELSE found

\* mt_multi._postprocess_row_for_202_103.  The F52A field, else F52D, else
\* F50F; no message of the vocabulary has an F52D or F50F field, so the
\* replacement of a label word by a name read from them is never taken.
_postprocess_row_for_202_103(row, block_text, cache, xlsx) ==
    WithDonor(row,
              OrNaive(get_donneur_from_f52(
                          OrText(OrText(get_field_block(block_text, "F52A"),
                                        get_field_block(block_text, "F52D")),
                                 get_field_block(block_text, "F50F")),
                          block_text, cache, xlsx),
                      block_text, cache, xlsx))

\* Lines 283-301: the name of the code if the workbook gives one, else the code.
BeneficiaryOf(code_only, cache, xlsx) ==
    IF code_only = None THEN None
    ELSE IF /\ map_code_to_name(code_only, cache, xlsx) # Raise
            /\ Truthy(map_code_to_name(code_only, cache, xlsx))
         THEN map_code_to_name(code_only, cache, xlsx)
    ELSE code_only

\* mt_multi._extract_f58a_beneficiary
_extract_f58a_beneficiary(row, block_text, cache, xlsx) ==
    Put(row, "beneficiaire",
        BeneficiaryOf(extract_receiver_bic(get_field_block(block_text, "F58A")),
                      cache, xlsx))

_fill_country_from_code_unless_set(row, cache, xlsx) ==
    IF /\ ~Truthy(Get(row, "pays_iso3"))
       /\ Truthy(Get(row, "code_donneur_dordre"))
       /\ map_code_to_country(Get(row, "code_donneur_dordre"), cache, xlsx) # Raise
       /\ Truthy(map_code_to_country(Get(row, "code_donneur_dordre"), cache, xlsx))
    THEN Put(row, "pays_iso3",
             map_code_to_country(Get(row, "code_donneur_dordre"), cache, xlsx))
    ELSE row

\* mt_multi._fill_country_from_code_force
_fill_country_from_code_force(row, cache, xlsx) ==
    IF /\ Truthy(Get(row, "code_donneur_dordre"))
       /\ map_code_to_country(Get(row, "code_donneur_dordre"), cache, xlsx) # Raise
       /\ Truthy(map_code_to_country(Get(row, "code_donneur_dordre"), cache, xlsx))
    THEN Put(row, "pays_iso3",
             map_code_to_country(Get(row, "code_donneur_dordre"), cache, xlsx))
    ELSE row

\* _fill_country_from_code without its test of the country of the row.
_fill_country_from_code_forcing(row, cache, xlsx) ==
    IF /\ Truthy(Get(row, "code_donneur_dordre"))
       /\ map_code_to_country(Get(row, "code_donneur_dordre"), cache, xlsx) # Raise
       /\ Truthy(map_code_to_country(Get(row, "code_donneur_dordre"), cache, xlsx))
    THEN Put(row, "pays_iso3",
             map_code_to_country(Get(row, "code_donneur_dordre"), cache, xlsx))
    ELSE row

\* mt_multi._fill_country_from_code
_fill_country_from_code(row, cache, xlsx) ==
    IF Truthy(Get(row, "pays_iso3")) THEN row
    ELSE _fill_country_from_code_force(row, cache, xlsx)

\* Lines 444-462: the donor written into the row of an MT910, as its
\* beneficiary too, then the country of the code.
WithDonor910(row, d, cache, xlsx) ==
    IF d.code = None THEN row
    ELSE _fill_country_from_code_force(
             FillBankCode(Put(Put(Put(Put(row, "code_donneur_dordre", d.code),
                                      "donneur_dordre", NameOrCode(d)),
                                  "institution_name", NameOrCode(d)),
                              "beneficiaire", NameOrCode(d)),
                          d.code),
             cache, xlsx)

\* mt_multi._extract_f52a_for_mt910
_extract_f52a_for_mt910(row, block_text, cache, xlsx) ==
    WithDonor910(row,
                 OrNaive(get_donneur_from_f52(get_field_block(block_text, "F52A"),
                                              block_text, cache, xlsx),
                         block_text, cache, xlsx),
                 cache, xlsx)

\* mt_multi._should_reject_mt103 (RULE 3)
_should_reject_mt103(row) ==
    /\ Get(row, "type_MT") \in {"fin.103"}
    /\ \E field_name \in {"f53a_raw", "f54a_raw", "f57a_raw"} :
           Get(row, field_name) \in {"BANQUE DE FRANCE", "FW021083459"}

\* RULE 2, line 617: IdentifierCode.*?Code d['`]identifiant:?\s+([A-Z0-9]{8,11})
\* in the F50A field: the code is what follows the label, on its line or on
\* one of the next.
F50aCode(f50a_block) ==
    LET codes == SelectSeq(Indices(f50a_block), LAMBDA q :
                  /\ f50a_block[q] \in {"BEACCMCX", "BEACCMCX091", "CITIUSNY",
                                        "BEACCMCXXXX", "CITIUSNYXXX", "BEACCM2X"}
                  /\ \E p \in 1..(q - 1) :
                        /\ f50a_block[p] = _LABEL_TEXT
                        /\ \A j \in (p + 1)..(q - 1) : f50a_block[j] = NL)
    IN  IF codes = <<>> THEN None ELSE f50a_block[codes[1]]

(***************************************************************************)
(* mt_multi.extract_messages_from_pdf                                      *)
(***************************************************************************)
PdfName == "x.pdf"

VALID_BASE_TYPES_with_555 == {"202", "103", "910", "555"}

VALID_BASE_TYPES == {"202", "103", "910"}

\* mt_type_token.split('.')[0]
BaseType(mt_type_token) ==
    CASE mt_type_token = "202.COV" -> "202"
      [] mt_type_token = "103.STP" -> "103"
      [] OTHER -> mt_type_token

\* Lines 503-506.
SourceLabel(i, multi) ==
    IF multi THEN "voir message N°" \o ToString(i) \o " du fichier " \o PdfName
    ELSE PdfName

\* Lines 584-596: the row built by the handler of the try block.
ErrorRow(mt_type_token, source_label, message) ==
    [ type_MT |-> "fin." \o mt_type_token,
      code_banque |-> None,
      reference |-> None,
      date_reference |-> None,
      devise |-> None,
      montant |-> None,
      donneur_dordre |-> None,
      beneficiaire |-> None,
      pays_iso3 |-> None,
      source_pdf |-> source_label,
      error |-> message ]

\* Lines 528-537: the beneficiary of a 202 by direction.
Beneficiary202(row, blk, dir, c, x) ==
    IF dir = "incoming" THEN Put(row, "beneficiaire", None)
    ELSE IF dir = "outgoing" THEN _extract_f58a_beneficiary(row, blk, c, x)
    ELSE row

\* Lines 545-550: a 103, its beneficiary emptied when outgoing.
After103(row, blk, dir, c, x) ==
    IF IsRaised(row) THEN row
    ELSE IF dir = "outgoing"
         THEN Put(_postprocess_row_for_202_103(row, blk, c, x), "beneficiaire", None)
    ELSE _postprocess_row_for_202_103(row, blk, c, x)

\* Lines 522-581: the try block, a row or the exception caught at line 582.
\* The type is overwritten for '202.COV' only (lines 539-544): setdefault
\* leaves the key alone when it is there, None included.
Dispatch(blk, mt_type_token, source_label, dir, c, x) ==
    CASE mt_type_token = "202" ->
            Beneficiary202(_postprocess_row_for_202_103(
                               mt202_extract_block(blk, source_label, c, x), blk, c, x),
                           blk, dir, c, x)
      [] mt_type_token = "202.COV" ->
            Put(Beneficiary202(_postprocess_row_for_202_103(
                                   mt202_extract_block(blk, source_label, c, x),
                                   blk, c, x),
                               blk, dir, c, x),
                "type_MT", "fin." \o mt_type_token)
      [] mt_type_token = "103" ->
            After103(mt103_extract_block(blk, source_label, c, x), blk, dir, c, x)
      [] mt_type_token = "910" -> mt910_extract_block(blk, source_label)
      [] OTHER ->
            _postprocess_row_for_202_103(
                mt202_extract_block(blk, source_label, c, x), blk, c, x)

expected ==
    { "type_MT", "code_banque", "sender_bic", "receiver_bic", "reference",
      "date_reference", "devise", "montant", "code_donneur_dordre",
      "donneur_dordre", "beneficiaire", "pays_iso3", "source_pdf" }

\* The fill of lines 603-610 left out.
EnsureExpected_none(row, source_label) == row

\* Lines 603-610.
EnsureExpected(row, source_label) ==
    IF Truthy(Get(row, "source_pdf")) THEN row @@ [k \in expected |-> None]
    ELSE Put(row @@ [k \in expected |-> None], "source_pdf", source_label)

Track_donor_only(missing, row, dir) ==
    IF ~Truthy(Get(row, "code_donneur_dordre"))
    THEN [missing EXCEPT !.empty = @ \cup {"(vide)"}]
    ELSE IF Get(row, "donneur_dordre") = Get(row, "code_donneur_dordre")
    THEN [missing EXCEPT !.unmapped = @ \cup {Get(row, "code_donneur_dordre")}]
    ELSE missing

\* beneficiary.isupper() and ' ' not in beneficiary, for the names and codes
\* a row can hold (all are capitals without a space).
\* Lines 635-652.
Track(missing, row, dir) ==
    LET code == Get(row, "code_donneur_dordre")
        name == Get(row, "donneur_dordre")
        beneficiary == Get(row, "beneficiaire")
        m1 == IF ~Truthy(code) THEN [missing EXCEPT !.empty = @ \cup {"(vide)"}]
              ELSE IF name = code THEN [missing EXCEPT !.unmapped = @ \cup {code}]
              ELSE missing
    IN  IF /\ dir = "outgoing"
           /\ Get(row, "type_MT") \in {"fin.202", "fin.202.COV"}
           /\ Truthy(beneficiary) /\ Len(beneficiary) >= 8 /\ Len(beneficiary) <= 11
        THEN [m1 EXCEPT !.unmapped = @ \cup {beneficiary}]
        ELSE m1

\* Lines 582-596: the row after the try statement.
Caught(tried, mt_type_token, source_label) ==
    IF IsRaised(tried) THEN ErrorRow(mt_type_token, source_label, tried.exception)
    ELSE tried

\* RULE 2 that drops an MT910 whatever the code its F50A carries.
Rule2_any_code(row, blk) ==
    /\ Get(row, "type_MT") = "fin.910"
    /\ F50aCode(get_field_block(blk, "F50A")) # None

\* Lines 613-622 (RULE 2): an MT910 whose F50A carries the code BEACCMCX091.
Rule2(row, blk) ==
    /\ Get(row, "type_MT") = "fin.910"
    /\ F50aCode(get_field_block(blk, "F50A")) = "BEACCMCX091"

\* Lines 613 and 625: the F52A step of an MT910 that RULE 2 let through.
Mt910Step(row, blk, c, x) ==
    IF Get(row, "type_MT") = "fin.910" THEN _extract_f52a_for_mt910(row, blk, c, x)
    ELSE row

\* mt_multi._safe_text_extract on a PDF of one page: a line break, then the
\* text of the page (which has no carriage return, no 'page N of M' line and
\* no run of three line breaks).
_safe_text_extract(page) == <<NL>> \o page

(***************************************************************************)
(* PDFs: up to MaxMessages messages, each of one of the shapes below (a    *)
(* list of lines), one after the other on the page.                        *)
(***************************************************************************)
MaxMessages == 2

F52A_line == <<"F52A:", _LABEL_TEXT, "BEACCMCX">>
F59_line == <<"F59:", "/CM2112345678", "GA">>
Strict32A_line == <<":32A:", "250101XAF1000,50">>

MessageShapes ==
    { << <<"Identifier: fin.202">>, <<"Transaction Reference: REF01">>,
         F52A_line, <<"F58A:", "CITIUSNY">>, F59_line >>,
      << <<"Identifier: fin.202">>, <<"MT 910">>, F52A_line,
         <<"F58A:", "CITIUSNY">> >>,
      << <<"Identifier: fin.202.COV">>, F52A_line, <<"F58A:", "CITIUSNY">> >>,
      << <<"Identifier: fin.202">>, F59_line >>,
      << <<"Identifier: fin.103">>, F52A_line, F59_line >>,
      << <<"Identifier: fin.910">>, <<"Transaction Reference: REF01">>,
         F52A_line, <<"Block 4">>, Strict32A_line >>,
      << <<"Identifier: fin.910">>, F52A_line, <<"Block 4">>,
         <<":32A:", "XAF", "1000,50">> >>,
      << <<"Identifier: fin.910">>, <<"F50A:", _LABEL_TEXT, "BEACCMCX091">>,
         <<"Block 4">>, <<":32A:", "XAF", "1000,50">> >>,
      << <<"Identifier: fin.910">>, <<"F50A:", _LABEL_TEXT, "BEACCMCX091">>,
         <<"Block 4">>, Strict32A_line >>,
      << <<"MT 910">>, <<"Block 4">>, Strict32A_line >>,
      << <<"Identifier: fin.555">>, F52A_line >>,
      << <<"Report">>, F52A_line >>,
      << <<"Identifier: fin.910">>,
         <<"Sender Institution:", "BEACCMCXXXX", "Expansion: BEAC">>,
         <<"Receiver Institution:", "CITIUSNYXXX", "Expansion: CITI">>,
         <<"Block 4">>, Strict32A_line >>,
      << <<"Identifier: fin.910">>,
         <<"Sender Institution:", "BEACCMCXXXX", "Expansion: BEAC">>,
         <<"Receiver Institution:", "CITIUSNYXXX", "Expansion: CITI">>,
         F52A_line, <<"Block 4">>, Strict32A_line >>,
      << <<"Identifier: fin.910">>, <<"GA">>, <<"F50A:", _LABEL_TEXT, "BEACCMCX">>,
         <<"Block 4">>, Strict32A_line >>,
      << <<"Identifier: fin.910">>, <<"F50A:", _LABEL_TEXT>>, <<"BEACCMCX091">>,
         <<"Block 4">>, Strict32A_line >>,
      << <<"Identifier: fin.103">>, F52A_line, <<"F57A:", "BANQUE DE FRANCE">>,
         F59_line >>,
      << <<"Identifier: fin.103">>, <<"SHA">>, F52A_line, F59_line >>,
      << <<"Identifier: fin.103.STP">>, F52A_line, F59_line >>,
      << <<"Identifier: fin.103">>, <<"F52A:", _LABEL_TEXT, "BEACCM2X">>, F59_line >> }

\* The lines of the messages of a PDF, in order, joined.
PdfTexts == {JoinLines(Flatten(ms)) : ms \in SeqsUpTo(MessageShapes, MaxMessages)}

\* A fresh process is handed a PDF; the workbook data/bic_codes.xlsx on disk
\* is readable ("ok"), absent ("missing") or not a workbook ("corrupt").
Init ==
    /\ pc = "ready"
    /\ text \in PdfTexts
    /\ result = None
    /\ direction \in {"incoming", "outgoing"}
    /\ workbook \in {"ok", "missing", "corrupt"}
    /\ _BIC_MAP_CACHE = "unset"
    /\ blocks = <<>>
    /\ index = 0
    /\ rows = <<>>
    /\ missing_codes = [unmapped |-> {}, empty |-> {}]

\* Lines 478-496: the mapping is preloaded (a failure is swallowed), the text
\* is read and split.
ReadPdf ==
    /\ pc = "ready"
    /\ LET loaded == load_bic_mapping(_BIC_MAP_CACHE, workbook)
       IN  _BIC_MAP_CACHE' = IF loaded = Raise THEN _BIC_MAP_CACHE ELSE loaded
    /\ blocks' = _split_messages(_safe_text_extract(text))
    /\ index' = 1
    /\ pc' = "loop"
    /\ UNCHANGED <<text, result, direction, workbook, rows, missing_codes>>

\* Lines 501-654: one turn of the loop.  After the preload the caches are
\* set, or every later load raises as the preload did: they do not change.
\* Each \E names a value the loop body holds in a local variable.
ProcessBlock ==
    /\ pc = "loop"
    /\ index <= Len(blocks)
    /\ \E blk \in {blocks[index]}, source_label \in {SourceLabel(index, Len(blocks) > 1)} :
       \E mt_type_token \in {_detect_mt_type(blk)} :
          IF mt_type_token = None \/ BaseType(mt_type_token) \notin VALID_BASE_TYPES
          THEN UNCHANGED <<rows, missing_codes>>
          ELSE
            \E tried \in {Dispatch(blk, mt_type_token, source_label, direction,
                                   _BIC_MAP_CACHE, workbook)} :
            \E row \in {EnsureExpected(Caught(tried, mt_type_token, source_label),
                                       source_label)} :
               IF Rule2(row, blk)
               THEN UNCHANGED <<rows, missing_codes>>
               ELSE
                 \E row910 \in {Mt910Step(row, blk, _BIC_MAP_CACHE, workbook)} :
                    IF _should_reject_mt103(row910)
                    THEN UNCHANGED <<rows, missing_codes>>
                    ELSE
                      \E filled \in {_fill_country_from_code(row910, _BIC_MAP_CACHE,
                                                             workbook)} :
                         /\ rows' = Append(rows, filled)
                         /\ missing_codes' = Track(missing_codes, filled, direction)
    /\ index' = index + 1
    /\ UNCHANGED <<pc, text, result, direction, workbook, _BIC_MAP_CACHE, blocks>>

\* Line 656.
Return ==
    /\ pc = "loop"
    /\ index > Len(blocks)
    /\ pc' = "done"
    /\ UNCHANGED <<text, result, direction, workbook, _BIC_MAP_CACHE, blocks, index,
                   rows, missing_codes>>

Next == ReadPdf \/ ProcessBlock \/ Return

Spec == Init /\ [][Next]_vars

(***************************************************************************)
(* The helper functions, each called once on an argument of a small set     *)
(***************************************************************************)
MaxRows == 2

MaxParts == 5

\* One call of one helper in a fresh process:
\*   - map_code_to_name(code) where the workbook holds a sheet of up to
\*     MaxRows rows: a bank under its 8 characters, a branch under its whole
\*     code, with and without a name, and a second bank;
\*   - get_field_block(text, field_label) on a text of up to MaxLines lines;
\*   - parse_reference(text) on a text of up to MaxLines lines, where the
\*     F20 tag has its value on its line, on a later line or not at all;
\*   - parse_date_YYMMDD(s) on six digits: a year of six, a month from 00 to
\*     19 and a day from 00 to 39;
\*   - parse_amount(s) on a string of up to MaxParts parts, each a group of
\*     digits, a comma or a point.
InitHelpers ==
    /\ pc = "call"
    /\ text \in
         { [fn |-> "map_code_to_name", sheet |-> sheet, code |-> code] :
             sheet \in SeqsUpTo(
                 { [code |-> "BEACCMCX", name |-> "BEAC", country |-> "CMR"],
                   [code |-> "BEACCMCX100", name |-> "BEAC DOUALA", country |-> ""],
                   [code |-> "BEACCMCX100", name |-> "", country |-> ""],
                   [code |-> "CITIUSNY", name |-> "CITIBANK", country |-> ""] },
                 MaxRows),
             code \in {"BEACCMCX", "BEACCMCX100", "BEACCMCX091", " beaccmcx100",
                       "CITIUSNY", "SGBKGALI"} }
         \cup
         { [fn |-> "get_field_block", text |-> JoinLines(lines),
            field_label |-> field_label] :
             lines \in SeqsUpTo(
                 { <<"F52A:", "foo">>, <<"F52A:">>, <<"bar">>, <<"F59:", "baz">>,
                   <<"F59", "baz">>, <<"F58A", "baz">>, <<>> },
                 MaxLines),
             field_label \in {"F52A", "F59"} }
         \cup
         { [fn |-> "parse_reference", text |-> JoinLines(lines)] :
             lines \in SeqsUpTo(
                 { <<"F20:", "abc123">>, <<"F20:">>, <<>>, <<"abc123">>, <<"1000,50">>,
                   <<"F20:", "1000,50">>, <<"F52A:", "BEACCMCX">>, <<":20:">>,
                   <<"Transaction Reference: REF01">> },
                 MaxLines) }
         \cup
         { [fn |-> "parse_date_YYMMDD", s |-> yy \o <<m1, m2, d1, d2>>] :
             yy \in { <<"0", "0">>, <<"0", "1">>, <<"2", "4">>, <<"2", "5">>,
                      <<"9", "6">>, <<"9", "9">> },
             m1 \in {"0", "1"},
             m2 \in {DigitChars[n] : n \in 1..10},
             d1 \in {"0", "1", "2", "3"},
             d2 \in {DigitChars[n] : n \in 1..10} }
         \cup
         { [fn |-> "parse_amount", s |-> Flatten(parts)] :
             parts \in SeqsUpTo(
                 { <<"1", "9", "1">>, <<"7", "0", "0">>, <<"6", "4">>, <<"1">>,
                   <<",">>, <<".">> },
                 MaxParts) }
    /\ result = None
    /\ PdfIdle

\* bic_utils.map_code_to_name, lines 199-210, the first call of the process:
\* load_bic_mapping reads the sheet (lines 156-187), then the look-ups.
MapCodeToName ==
    /\ pc = "call"
    /\ text.fn = "map_code_to_name"
    /\ result' = NameIn(text.code, BuildMaps(text.sheet,
                           [mapping |-> <<>>, full |-> <<>>, country |-> <<>>]))
    /\ pc' = "returned"
    /\ UNCHANGED <<text, pdf_vars>>

\* mt202.get_field_block, lines 73-78: None for an empty text or an absent
\* label, else the string of the field.
GetFieldBlock ==
    /\ pc = "call"
    /\ text.fn = "get_field_block"
    /\ result' = IF FieldLabelAt(text.text, text.field_label) = <<>> THEN None
                 ELSE Render(get_field_block(text.text, text.field_label))
    /\ pc' = "returned"
    /\ UNCHANGED <<text, pdf_vars>>

\* mt202.parse_date_YYMMDD, lines 112-127.
ParseDate ==
    /\ pc = "call"
    /\ text.fn = "parse_date_YYMMDD"
    /\ result' = parse_date_YYMMDD(text.s)
    /\ pc' = "returned"
    /\ UNCHANGED <<text, pdf_vars>>

\* mt202.parse_amount, lines 80-110.
ParseAmount ==
    /\ pc = "call"
    /\ text.fn = "parse_amount"
    /\ result' = parse_amount(text.s)
    /\ pc' = "returned"
    /\ UNCHANGED <<text, pdf_vars>>

\* mt202.parse_reference, lines 248-256: None for an empty text.
ParseReference ==
    /\ pc = "call"
    /\ text.fn = "parse_reference"
    /\ result' = parse_reference(text.text)
    /\ pc' = "returned"
    /\ UNCHANGED <<text, pdf_vars>>

NextHelpers ==
    \/ MapCodeToName
    \/ GetFieldBlock
    \/ ParseDate
    \/ ParseAmount
    \/ ParseReference

SpecHelpers == InitHelpers /\ [][NextHelpers]_vars

(***************************************************************************)
(* bic_utils.load_bic_mapping called again and again in one process         *)
(***************************************************************************)
\* A fresh process: the three globals are None (globals = <<>>) and the memo
\* of functools.lru_cache(maxsize=1) is empty.  Each of the two files is
\* absent, not a workbook, a sheet without rows or one of two sheets with
\* rows; the disk does not change.
InitLoad ==
    /\ pc = "idle"
    /\ text = None
    /\ result = None
    /\ \E files \in [ {"data/bic_codes.xlsx", "other.xlsx"} ->
                        { [state |-> "missing", sheet |-> <<>>],
                          [state |-> "corrupt", sheet |-> <<>>],
                          [state |-> "ok", sheet |-> <<>>],
                          [state |-> "ok", sheet |-> Workbook],
                          [state |-> "ok",
                           sheet |-> << [code |-> "BEACCMCX100",
                                         name |-> "BEAC DOUALA",
                                         country |-> ""] >>] } ] :
       \E override \in { [state |-> "missing", sheet |-> <<>>],
                          [state |-> "ok",
                           sheet |-> << [code |-> "CITIUSNY", name |-> "CITI",
                                         country |-> ""] >>] } :
          workbook = files @@ ("~/.pdf_swift_extractor/data/bic.xlsx" :> override)
    /\ _BIC_MAP_CACHE = [globals |-> <<>>, memo |-> <<>>, _cached_mapping |-> <<>>]
    /\ direction = "incoming"
    /\ blocks = <<>>
    /\ index = 0
    /\ rows = <<>>
    /\ missing_codes = [unmapped |-> {}, empty |-> {}]

\* load_bic_mapping(xlsx_path), lines 85-107 and 184-187.  text is the
\* argument of the call and result the mapping it returned, or the exception.
\*   - line 85: a call with the argument of the last call that returned gets
\*     the memoised value, the body does not run;
\*   - line 98: the file read is xlsx_path, data/bic_codes.xlsx without one;
\*   - lines 95-96: globals that are set are returned, whatever the path;
\*   - lines 103-107: an absent file sets the globals to empty maps;
\*   - line 109: an exception of read_excel leaves globals and memo alone;
\*   - lines 156-187: else the globals are set from the rows of the file.
LoadBicMapping ==
    \E xlsx_path \in {None, "data/bic_codes.xlsx", "other.xlsx"} :
    \E fp \in {IF xlsx_path = None THEN "data/bic_codes.xlsx" ELSE xlsx_path} :
        /\ pc' = "returned"
        /\ text' = xlsx_path
        /\ IF _BIC_MAP_CACHE.memo # <<>> /\ _BIC_MAP_CACHE.memo[1].arg = xlsx_path
           THEN /\ result' = _BIC_MAP_CACHE.memo[1].value
                /\ UNCHANGED _BIC_MAP_CACHE
           ELSE IF _BIC_MAP_CACHE.globals # <<>>
           THEN /\ result' = _BIC_MAP_CACHE.globals[1].mapping
                /\ _BIC_MAP_CACHE' =
                      [_BIC_MAP_CACHE EXCEPT
                         !.memo = << [arg |-> xlsx_path,
                                      value |-> _BIC_MAP_CACHE.globals[1].mapping] >>]
           ELSE IF workbook[fp].state = "corrupt"
           THEN /\ result' = Raised(ExcelError)
                /\ UNCHANGED _BIC_MAP_CACHE
           ELSE \E maps \in {BuildMaps(workbook[fp].sheet,
                                        [mapping |-> <<>>, full |-> <<>>,
                                         country |-> <<>>])} :
                  /\ result' = maps.mapping
                  /\ _BIC_MAP_CACHE' =
                        [_BIC_MAP_CACHE EXCEPT
                           !.globals = <<maps>>,
                           !.memo = << [arg |-> xlsx_path, value |-> maps.mapping] >>]
        /\ UNCHANGED <<direction, workbook, blocks, index, rows, missing_codes>>

\* extractor_manager, lines 61-67, 128-147 and 169-195: the files that
\* load_bic_mapping tries without an explicit path, in order, in a process
\* whose environment sets none of PDF_SWIFT_DATA_DIR, PROGRAMDATA,
\* LOCALAPPDATA and XDG_DATA_HOME: the directory of the user, the bundled
\* directory, the relative defaults.
ManagerCandidates ==
    << "~/.pdf_swift_extractor/data/bic_codes.xlsx",
       "~/.pdf_swift_extractor/data/bic.xlsx",
       "<bundle>/data/bic_codes.xlsx",
       "<bundle>/data/bic.xlsx",
       "data/bic_codes.xlsx",
       "data/bic.xlsx",
       "bic_codes.xlsx",
       "bic.xlsx",
       "data/bfde98b8-0a94-4ba1-ab8a-eae27357cc7e.xlsx" >>

\* extractor_manager, lines 218-229: first 8 characters -> name, the last
\* row of a key wins, a row without a code is skipped.
RECURSIVE ManagerMapping(_)
ManagerMapping(sheet) ==
    IF sheet = <<>> THEN <<>>
    ELSE IF sheet[Len(sheet)].code = ""
         THEN ManagerMapping(SubSeq(sheet, 1, Len(sheet) - 1))
    ELSE (Key8(sheet[Len(sheet)].code) :> sheet[Len(sheet)].name)
            @@ ManagerMapping(SubSeq(sheet, 1, Len(sheet) - 1))

\* extractor_manager.load_bic_mapping(xlsx_path), lines 149-234.  result is
\* the mapping returned, or the exception: FileNotFoundError carries the
\* paths its message names.
\*   - lines 163-166: an explicit path that does not exist raises;
\*   - lines 168-195: else the first candidate that exists is taken;
\*   - lines 197-203: none exists, the error names the relative defaults;
\*   - lines 206-208: the mapping cached for the same path is returned;
\*   - line 210: read_excel raises on a file that is not a workbook;
\*   - lines 218-232: the mapping is built and cached with its path.
ManagerLoadBicMapping ==
    \E xlsx_path \in {None, "other.xlsx"} :
    \E found \in {SelectSeq(IF xlsx_path = None THEN ManagerCandidates
                             ELSE <<xlsx_path>>,
                             LAMBDA p : /\ p \in DOMAIN workbook
                                        /\ workbook[p].state # "missing")} :
        /\ pc' = "manager returned"
        /\ text' = xlsx_path
        /\ IF found = <<>>
           THEN /\ result' = Raised([FileNotFoundError |->
                                        IF xlsx_path = None
                                        THEN SubSeq(ManagerCandidates, 5, 9)
                                        ELSE <<xlsx_path>>])
                /\ UNCHANGED _BIC_MAP_CACHE
           ELSE IF /\ _BIC_MAP_CACHE._cached_mapping # <<>>
                   /\ _BIC_MAP_CACHE._cached_mapping[1].path = found[1]
           THEN /\ result' = _BIC_MAP_CACHE._cached_mapping[1].mapping
                /\ UNCHANGED _BIC_MAP_CACHE
           ELSE IF workbook[found[1]].state = "corrupt"
           THEN /\ result' = Raised(ExcelError)
                /\ UNCHANGED _BIC_MAP_CACHE
           ELSE /\ result' = ManagerMapping(workbook[found[1]].sheet)
                /\ _BIC_MAP_CACHE' =
                      [_BIC_MAP_CACHE EXCEPT
                         !._cached_mapping =
                            << [path |-> found[1],
                                mapping |-> ManagerMapping(workbook[found[1]].sheet)] >>]
        /\ UNCHANGED <<direction, workbook, blocks, index, rows, missing_codes>>

NextLoad ==
    \/ LoadBicMapping
    \/ ManagerLoadBicMapping

SpecLoad == InitLoad /\ [][NextLoad]_vars

(***************************************************************************)
(* Properties of the orchestrator                                          *)
(***************************************************************************)
\* The loop is about to process blocks[index].
Turn == pc = "loop" /\ index \in DOMAIN blocks

\* What the try block of this turn gives.
Tried ==
    Dispatch(blocks[index], _detect_mt_type(blocks[index]),
             SourceLabel(index, Len(blocks) > 1), direction, _BIC_MAP_CACHE, workbook)

\* The type the block bears, by the header-first rule, and whether the
\* orchestrator is to accept it.
TypeOf(blk) == HeaderPreferred(blk)

Accepted(blk) ==
    TypeOf(blk) # None /\ BaseType(TypeOf(blk)) \in {"202", "103", "910"}

\* This turn appends a record; the record.
Emits == Len(rows') = Len(rows) + 1

Emitted == rows'[Len(rows')]

\* The block that record i was emitted for is rows[i]'s source: the record of
\* a PDF of one block, or the one labelled with the block's number.
RecordOf(k, i) ==
    /\ i \in DOMAIN rows
    /\ k \in DOMAIN blocks
    /\ rows[i].source_pdf = SourceLabel(k, Len(blocks) > 1)

HasField(blk, tag) == \E k \in DOMAIN blk : blk[k] = tag

\* C1 as stated: every emitted record carries every key of the record model,
\* the key 'error' included.
C1_AllKeys_AsStated ==
    \A i \in DOMAIN rows : expected \cup {"error"} \subseteq DOMAIN rows[i]

\* C1: every record the orchestrator emits carries the thirteen keys type_MT,
\* code_banque, sender_bic, receiver_bic, reference, date_reference, devise,
\* montant, code_donneur_dordre, donneur_dordre, beneficiaire, pays_iso3 and
\* source_pdf; the key 'error' is carried exactly by the records of the
\* blocks whose extraction raised.
C1_ExpectedKeys ==
    [][ (Turn /\ Emits) =>
            /\ expected \subseteq DOMAIN Emitted
            /\ "error" \in DOMAIN Emitted <=> IsRaised(Tried) ]_vars

\* A normal record and an error record have both been emitted.
C1_Witness ==
    /\ pc = "done"
    /\ \E i, j \in DOMAIN rows :
          /\ "error" \in DOMAIN rows[i]
          /\ "error" \notin DOMAIN rows[j]
          /\ expected \subseteq DOMAIN rows[i] \cap DOMAIN rows[j]

\* C2: a turn of the loop on a block whose type is undetected, or whose base
\* type is none of 202, 103 and 910, emits no record and leaves the sets of
\* unmapped and empty codes as they are; a PDF all of whose blocks are of
\* that kind returns the empty list and empty sets.
C2_RejectedBlocksDropped ==
    /\ [][ (Turn /\ ~Accepted(blocks[index])) =>
              rows' = rows /\ missing_codes' = missing_codes ]_vars
    /\ []( (pc = "done" /\ \A k \in DOMAIN blocks : ~Accepted(blocks[k])) =>
              rows = <<>> /\ missing_codes = [unmapped |-> {}, empty |-> {}] )

\* The PDF whose only message is of type 555 has been processed: nothing was
\* emitted.
C2_Witness ==
    /\ pc = "done"
    /\ Len(blocks) = 1
    /\ TypeOf(blocks[1]) = "555"
    /\ rows = <<>>
    /\ missing_codes = [unmapped |-> {}, empty |-> {}]

\* The minimal record of a failure: the expected keys, the error text, and
\* nothing known but the type and the source.
Minimal(row, message) ==
    /\ expected \subseteq DOMAIN row
    /\ Get(row, "error") = message
    /\ \A k \in expected \ {"type_MT", "source_pdf"} : row[k] = None

\* C3 as stated: when the extraction of an accepted block raises, the loop
\* goes on to the next block and a minimal record with the error text is
\* emitted for the block.
C3_ErrorRecord_AsStated ==
    [][ (Turn /\ Accepted(blocks[index]) /\ IsRaised(Tried)) =>
            /\ index' = index + 1
            /\ Emits
            /\ Minimal(Emitted, Tried.exception) ]_vars

\* C3, the part that holds: no turn aborts the loop, whatever the block, and
\* a block of type 103 whose extraction raises gets the minimal record.
C3_ErrorRecord_Mt103 ==
    [][ Turn =>
            /\ index' = index + 1
            /\ pc' = "loop"
            /\ (TypeOf(blocks[index]) = "103" /\ IsRaised(Tried)) =>
                   Emits /\ Minimal(Emitted, Tried.exception) ]_vars

\* The record of an MT103 whose extraction raised, and a normal record after
\* it.
C3_Witness ==
    /\ pc = "done"
    /\ \E i, j \in DOMAIN rows :
          /\ i < j
          /\ Minimal(rows[i], ExcelError)
          /\ rows[i].type_MT = "fin.103"
          /\ "error" \notin DOMAIN rows[j]

\* C4 as stated, the part on raising: none of the three extractors raises,
\* whatever the block it is given.
C4_ExtractorsNeverRaise_AsStated ==
    Turn =>
        /\ ~IsRaised(mt202_extract_block(blocks[index], PdfName, _BIC_MAP_CACHE, workbook))
        /\ ~IsRaised(mt103_extract_block(blocks[index], PdfName, _BIC_MAP_CACHE, workbook))
        /\ ~IsRaised(mt910_extract_block(blocks[index], PdfName))

\* C9 as stated: with direction incoming, the record emitted for a block of
\* type 202 or 202.COV has no beneficiary.
C9_IncomingNoBeneficiary_AsStated ==
    [][ (Turn /\ direction = "incoming" /\ Emits
             /\ TypeOf(blocks[index]) \in {"202", "202.COV"}) =>
            Emitted.beneficiaire = None ]_vars

\* C9, the part that holds: with direction incoming, the record emitted for
\* a block of type 202 or 202.COV has no beneficiary unless the extractor
\* read the type 'fin.910' off an inline token of the block.
C9_IncomingNoBeneficiary_NoInline910 ==
    [][ (Turn /\ direction = "incoming" /\ Emits
             /\ TypeOf(blocks[index]) \in {"202", "202.COV"}
             /\ Emitted.type_MT # "fin.910") =>
            Emitted.beneficiaire = None ]_vars

\* An incoming 202 with F58A and F59 has been emitted without beneficiary.
C9_Witness ==
    /\ direction = "incoming"
    /\ \E k \in DOMAIN blocks, i \in DOMAIN rows :
          /\ RecordOf(k, i)
          /\ TypeOf(blocks[k]) = "202"
          /\ HasField(blocks[k], "F58A:")
          /\ HasField(blocks[k], "F59:")
          /\ rows[i].beneficiaire = None

\* The beneficiary F58A prescribes: the name the workbook gives for the code
\* that follows the tag, else that code.
F58aBeneficiary(blk) ==
    LET k == CHOOSE k \in DOMAIN blk : blk[k] = "F58A:"
        code == blk[k + 1]
    IN  IF workbook = "ok" /\ SheetName(code) # None THEN SheetName(code) ELSE code

\* C10 as stated: with direction outgoing, the record emitted for a block of
\* type 202 that has an F58A field carries the beneficiary of F58A.
C10_OutgoingFromF58A_AsStated ==
    [][ (Turn /\ direction = "outgoing" /\ Emits
             /\ TypeOf(blocks[index]) \in {"202", "202.COV"}
             /\ HasField(blocks[index], "F58A:")) =>
            Emitted.beneficiaire = F58aBeneficiary(blocks[index]) ]_vars

\* C10, the part that holds: the same, unless the extractor read the type
\* 'fin.910' off an inline token of the block.
C10_OutgoingFromF58A_NoInline910 ==
    [][ (Turn /\ direction = "outgoing" /\ Emits
             /\ TypeOf(blocks[index]) \in {"202", "202.COV"}
             /\ HasField(blocks[index], "F58A:")
             /\ Emitted.type_MT # "fin.910") =>
            Emitted.beneficiaire = F58aBeneficiary(blocks[index]) ]_vars

\* An outgoing 202 with F58A and F59 has been emitted with the name of the
\* F58A code, not the F59 account.
C10_Witness ==
    /\ direction = "outgoing"
    /\ workbook = "ok"
    /\ \E k \in DOMAIN blocks, i \in DOMAIN rows :
          /\ RecordOf(k, i)
          /\ TypeOf(blocks[k]) = "202"
          /\ HasField(blocks[k], "F58A:")
          /\ HasField(blocks[k], "F59:")
          /\ rows[i].beneficiaire = "CITIBANK"

\* C11 as stated: every record emitted for an MT910 block names the same
\* party as payer (donneur_dordre) and as beneficiary.
C11_PayerIsBeneficiary_AsStated ==
    [][ (Turn /\ Emits /\ TypeOf(blocks[index]) = "910") =>
            Emitted.donneur_dordre = Emitted.beneficiaire ]_vars

\* C11, the part that holds: the record emitted for an MT910 block names the
\* same party as payer and as beneficiary whenever a donor code was found for
\* it; the header then determines neither.
C11_PayerIsBeneficiary_WithCode ==
    [][ (Turn /\ Emits /\ TypeOf(blocks[index]) = "910"
             /\ Emitted.code_donneur_dordre # None) =>
            /\ Emitted.donneur_dordre = Emitted.beneficiaire
            /\ Emitted.donneur_dordre \notin {"BEACCMCXXXX/BEAC", "CITIUSNYXXX/CITI"} ]_vars

\* An MT910 with the Sender / Receiver Institution header and an F52A code
\* has been emitted: payer and beneficiary are the F52A institution.
C11_Witness ==
    /\ workbook = "ok"
    /\ \E k \in DOMAIN blocks, i \in DOMAIN rows :
          /\ RecordOf(k, i)
          /\ TypeOf(blocks[k]) = "910"
          /\ HasField(blocks[k], "Sender Institution:")
          /\ HasField(blocks[k], "F52A:")
          /\ rows[i].donneur_dordre = "BEAC"
          /\ rows[i].beneficiaire = "BEAC"

UnnamedDonors ==
    { rows[i].code_donneur_dordre : i \in
        { i \in DOMAIN rows : /\ rows[i].code_donneur_dordre # None
                              /\ rows[i].donneur_dordre = rows[i].code_donneur_dordre } }

SomeDonorAbsent == \E i \in DOMAIN rows : rows[i].code_donneur_dordre = None

\* The beneficiaries of the emitted outgoing 202 records that look like a
\* code: 8 to 11 characters, upper case, no space.
CodeLikeBeneficiaries ==
    { rows[i].beneficiaire : i \in
        { i \in DOMAIN rows : /\ direction = "outgoing"
                              /\ rows[i].type_MT \in {"fin.202", "fin.202.COV"}
                              /\ rows[i].beneficiaire # None
                              /\ Len(rows[i].beneficiaire) \in 8..11 } }

F50aCarries(blk, code) ==
    \E f \in DOMAIN blk : \E p \in DOMAIN blk : \E q \in DOMAIN blk :
        /\ f < p /\ p < q
        /\ blk[f] = "F50A:"
        /\ blk[p] = _LABEL_TEXT
        /\ blk[q] = code
        /\ \A j \in (f + 1)..(p - 1) : blk[j] = NL
        /\ \A j \in (p + 1)..(q - 1) : blk[j] = NL

\* C19: an MT910 block whose F50A carries the code BEACCMCX091 after the
\* label is dropped: the turn emits no record and leaves the unmapped and
\* empty sets as they were; an MT910 block whose F50A carries another code
\* is emitted.
C19_Rule2Drops ==
    [][ (Turn /\ TypeOf(blocks[index]) = "910") =>
            /\ F50aCarries(blocks[index], "BEACCMCX091")
                  => (rows' = rows /\ missing_codes' = missing_codes)
            /\ (\E code \in {"BEACCMCX", "CITIUSNY"} : F50aCarries(blocks[index], code))
                  => Emits ]_vars

\* An MT910 whose F50A has the label on one line and BEACCMCX091 on the next
\* has been passed over: the PDF is done and holds no record.
C19_Witness ==
    /\ pc = "done"
    /\ Len(blocks) = 1
    /\ F50aCarries(blocks[1], "BEACCMCX091")
    /\ \E p \in DOMAIN blocks[1] : blocks[1][p] = _LABEL_TEXT /\ blocks[1][p + 1] = NL
    /\ rows = <<>>
    /\ missing_codes = [unmapped |-> {}, empty |-> {}]

\* C20, as the specification states it: an MT103 block whose F53A, F54A or
\* F57A field holds 'BANQUE DE FRANCE' or 'FW021083459' is dropped, no record
\* is emitted for it.
C20_ForbiddenMt103Dropped_AsStated ==
    [][ ( /\ Turn
          /\ TypeOf(blocks[index]) = "103"
          /\ \E p \in DOMAIN blocks[index] :
                /\ p < Len(blocks[index])
                /\ blocks[index][p] = "F57A:"
                /\ blocks[index][p + 1] = "BANQUE DE FRANCE" ) =>
            rows' = rows ]_vars

\* C20, what the code does: the record of an MT103 block never carries one of
\* the keys f53a_raw, f54a_raw, f57a_raw that RULE 3 reads, so that every
\* MT103 block is emitted, whatever its F53A, F54A and F57A fields hold.
C20_Mt103NeverRejected ==
    [][ (Turn /\ TypeOf(blocks[index]) = "103") =>
            /\ Emits
            /\ \A field_name \in {"f53a_raw", "f54a_raw", "f57a_raw"} :
                  field_name \notin DOMAIN Emitted ]_vars

\* The record of an MT103 whose F57A holds 'BANQUE DE FRANCE' has been
\* emitted.
C20_Witness ==
    /\ pc = "done"
    /\ Len(blocks) = 1
    /\ \E p \in DOMAIN blocks[1] :
          /\ p < Len(blocks[1])
          /\ blocks[1][p] = "F57A:"
          /\ blocks[1][p + 1] = "BANQUE DE FRANCE"
    /\ Len(rows) = 1
    /\ rows[1].type_MT = "fin.103"

\* C21, as the specification states it: the record emitted for a block
\* detected as a dotted 202 variant has the type 'fin.' followed by the full
\* token, and the record emitted for a block detected as the plain 202 has
\* the type 'fin.202', whatever other MT/FIN tokens the block holds or lacks.
C21_Type202_AsStated ==
    [][ ( /\ Turn
          /\ Emits
          /\ _detect_mt_type(blocks[index]) \in {"202", "202.COV"} ) =>
            Emitted.type_MT = "fin." \o _detect_mt_type(blocks[index]) ]_vars

\* C21, what the code does: the record of a dotted variant has the type
\* 'fin.' followed by the full token; the record of the plain 202 keeps the
\* type that mt202 found, the first inline MT/FIN token of the block, or None
\* when the block has none.
C21_Type202 ==
    [][ ( /\ Turn
          /\ Emits
          /\ _detect_mt_type(blocks[index]) \in {"202", "202.COV"} ) =>
            Emitted.type_MT =
                IF _detect_mt_type(blocks[index]) = "202.COV" THEN "fin.202.COV"
                ELSE FinType(Search([k \in DOMAIN blocks[index] |->
                                        MT_RE(blocks[index][k])]), None) ]_vars

\* A 202.COV block has been emitted as fin.202.COV, a plain 202 block
\* without an inline token with no type, and a plain 202 block that holds
\* 'MT 910' as fin.910.
C21_Witness ==
    /\ pc = "done"
    /\ \E k \in DOMAIN blocks, i \in DOMAIN rows :
          /\ RecordOf(k, i)
          /\ _detect_mt_type(blocks[k]) = "202.COV"
          /\ rows[i].type_MT = "fin.202.COV"
    /\ \E k \in DOMAIN blocks, i \in DOMAIN rows :
          /\ RecordOf(k, i)
          /\ _detect_mt_type(blocks[k]) = "202"
          /\ rows[i].type_MT \in {None, "fin.910"}

\* C22, as the specification states it: the currency of every emitted record
\* is null or a code of the allow-list; a three-letter word outside the list
\* is never emitted as a currency.
C22_CurrencyAllowed_AsStated ==
    \A i \in DOMAIN rows : rows[i].devise \in VALID_CURRENCIES \cup {None}

\* C22, what the code does: the record that mt202 builds (a 202, or a dotted
\* variant of another base type) has a currency of the allow-list or none;
\* the record of a 103 has the first word of three capitals of its F32A
\* field, or of the whole block when it has no such field, whatever the word
\* is, unless the extraction failed.
C22_CurrencyAllowed ==
    [][ (Turn /\ Emits) =>
          IF _detect_mt_type(blocks[index]) = "103"
          THEN Emitted.devise \in
                  {None, SearchUpperWord3(F32aBlock(blocks[index]))}
          ELSE Emitted.devise \in VALID_CURRENCIES \cup {None} ]_vars

\* An MT103 whose text holds the word 'SHA' has been emitted with the
\* currency 'SHA', and a 202.COV, whose first word of three capitals is
\* 'COV', without a currency.
C22_Witness ==
    /\ pc = "done"
    /\ \E k \in DOMAIN blocks, i \in DOMAIN rows :
          /\ RecordOf(k, i)
          /\ _detect_mt_type(blocks[k]) = "103"
          /\ rows[i].devise = "SHA"
          /\ "SHA" \notin VALID_CURRENCIES
    /\ \E k \in DOMAIN blocks, i \in DOMAIN rows :
          /\ RecordOf(k, i)
          /\ _detect_mt_type(blocks[k]) = "202.COV"
          /\ SearchUpperWord3(blocks[k]) = "COV"
          /\ rows[i].devise = None

\* C23, as the specification states it: a block whose detected type is a
\* dotted variant of 103 or 910 is dropped, no record is emitted for it.
C23_DottedNon202Dropped_AsStated ==
    [][ (Turn /\ _detect_mt_type(blocks[index]) = "103.STP") => rows' = rows ]_vars

\* C23, what the code does: the base type of a dotted variant of 103 is
\* valid, so that the block passes the type filter; no branch of the
\* dispatch names the dotted token, and the block goes to the fallback
\* chain, whose first extractor, mt202, builds the record that is emitted:
\* it has the type and the currency that mt202 gives, and no error.
C23_DottedNon202FallsThrough ==
    [][ (Turn /\ _detect_mt_type(blocks[index]) = "103.STP") =>
            /\ BaseType(_detect_mt_type(blocks[index])) \in VALID_BASE_TYPES
            /\ Emits
            /\ "error" \notin DOMAIN Emitted
            /\ Emitted.type_MT =
                  FinType(Search([k \in DOMAIN blocks[index] |->
                                     MT_RE(blocks[index][k])]), None)
            /\ Emitted.devise \in VALID_CURRENCIES \cup {None} ]_vars

\* The record of a block headed 'Identifier: fin.103.STP' has been emitted.
C23_Witness ==
    /\ pc = "done"
    /\ Len(blocks) = 1
    /\ _detect_mt_type(blocks[1]) = "103.STP"
    /\ Len(rows) = 1
    /\ rows[1].source_pdf = PdfName

\* The words a donor code can be that start with IDENTIF, PARTYIDENT, PARTY
\* or IDENTIFIANT.
LabelFragments == {"IDENTIFIANT", "IDENTIFIER"}

\* C25, as the specification states it: the donor code of an emitted record
\* is never a label fragment.
C25_NoLabelFragment_AsStated ==
    \A i \in DOMAIN rows : rows[i].code_donneur_dordre \notin LabelFragments

\* C25, what the code does: the donor code is not a label fragment when the
\* workbook can be read or is absent and the strict rule finds, after the
\* label, a run of 8 to 11 letters that is not itself a fragment.  When the
\* code after the label has a digit among its first letters, or when the
\* look-up of the name raises, the code emitted is the word IDENTIFIANT of
\* the label.
C25_NoLabelFragment ==
    [][ (Turn /\ Emits) =>
          /\ ( /\ workbook # "corrupt"
               /\ _find_strict_identifier_in_f52(blocks[index]) # None ) =>
                  Emitted.code_donneur_dordre \notin LabelFragments
          /\ ( /\ "error" \notin DOMAIN Emitted
               /\ \E p \in DOMAIN blocks[index] : blocks[index][p] = _LABEL_TEXT
               /\ \/ workbook = "corrupt"
                  \/ _find_strict_identifier_in_f52(blocks[index]) = None ) =>
                  Emitted.code_donneur_dordre = "IDENTIFIANT" ]_vars

\* With a readable workbook, an MT103 whose F52A carries the code BEACCM2X
\* after the label has been emitted with the donor code IDENTIFIANT.
C25_Witness ==
    /\ pc = "done"
    /\ workbook = "ok"
    /\ Len(blocks) = 1
    /\ \E p \in DOMAIN blocks[1] : blocks[1][p] = "BEACCM2X"
    /\ Len(rows) = 1
    /\ rows[1].type_MT = "fin.103"
    /\ rows[1].code_donneur_dordre = "IDENTIFIANT"

(***************************************************************************)
(* Properties of the helper functions                                      *)
(***************************************************************************)
\* The rows of the sheet of a call, down to row n, whose code has the first
\* 8 characters of key8.
RowsUnder(key8, n) ==
    {k \in DOMAIN text.sheet : k <= n /\ Key8(text.sheet[k].code) = key8}

\* The rows among these that carry a name.
NamedRowsUnder(key8, n) == {k \in RowsUnder(key8, n) : text.sheet[k].name # ""}

\* The rows of the sheet whose code is the whole code asked for.
ExactRows == {k \in DOMAIN text.sheet : text.sheet[k].code = StripUpper(text.code)}

Last(S) == CHOOSE k \in S : \A j \in S : j <= k

\* The name the rows down to row n store under the first 8 characters of a
\* code: that of the last row with a name, or the code of the first row when
\* none has one.
PrefixName(key8, n) ==
    IF NamedRowsUnder(key8, n) # {}
    THEN text.sheet[Last(NamedRowsUnder(key8, n))].name
    ELSE text.sheet[First(RowsUnder(key8, n))].code

\* C14: map_code_to_name returns the name stored under the whole code (in
\* capitals, stripped) when the sheet has a row for it, whatever name the
\* rows sharing its first 8 characters carry: the name of the last such row
\* or, if that row has none, the name its first 8 characters had at that row.
\* Without a row for the whole code it returns the name stored under the
\* first 8 characters, and None when no row shares these.
C14_ExactBeforePrefix ==
    (pc = "returned" /\ text.fn = "map_code_to_name") =>
        /\ (ExactRows # {} /\ text.sheet[Last(ExactRows)].name # "")
              => result = text.sheet[Last(ExactRows)].name
        /\ (ExactRows # {} /\ text.sheet[Last(ExactRows)].name = "")
              => result = PrefixName(Key8(StripUpper(text.code)), Last(ExactRows))
        /\ (ExactRows = {} /\ RowsUnder(Key8(StripUpper(text.code)), Len(text.sheet)) # {})
              => result = PrefixName(Key8(StripUpper(text.code)), Len(text.sheet))
        /\ RowsUnder(Key8(StripUpper(text.code)), Len(text.sheet)) = {} => result = None

\* The branch code is asked for in a sheet whose last row gives the bank
\* another name under the same first 8 characters.
C14_Witness ==
    /\ pc = "returned"
    /\ text.fn = "map_code_to_name"
    /\ text.code = " beaccmcx100"
    /\ text.sheet = << [code |-> "BEACCMCX100", name |-> "BEAC DOUALA", country |-> ""],
                       [code |-> "BEACCMCX", name |-> "BEAC", country |-> "CMR"] >>
    /\ result = "BEAC DOUALA"

\* The mapping the file of a call holds (none for an absent file).
MappingOfPath(xlsx_path) ==
    BuildMaps(workbook[IF xlsx_path = None THEN "data/bic_codes.xlsx" ELSE xlsx_path].sheet,
              [mapping |-> <<>>, full |-> <<>>, country |-> <<>>]).mapping

\* C15, as the specification states it: every call of load_bic_mapping that
\* returns gives the mapping of the file its own path names, whatever was
\* loaded or found missing by the calls before it.
C15_MappingOfCurrentPath_AsStated ==
    (pc = "returned" /\ ~IsRaised(result)) => result = MappingOfPath(text)

\* C15, what the code does: the first call that returns sets the mapping of
\* the process from its own file; every later call returns that mapping
\* again, whatever its path.
C15_FirstLoadWins ==
    [][ pc' = "returned" =>
          /\ (_BIC_MAP_CACHE.globals = <<>> /\ ~IsRaised(result'))
              => result' = MappingOfPath(text')
          /\ _BIC_MAP_CACHE.globals # <<>>
              => /\ result' = _BIC_MAP_CACHE.globals[1].mapping
                 /\ _BIC_MAP_CACHE'.globals = _BIC_MAP_CACHE.globals ]_vars

\* A call for other.xlsx, which holds a sheet, has returned the empty mapping
\* an earlier call cached for the absent default file.
C15_Witness ==
    /\ pc = "returned"
    /\ text = "other.xlsx"
    /\ workbook["data/bic_codes.xlsx"].state = "missing"
    /\ workbook["other.xlsx"].sheet = Workbook
    /\ result = <<>>
    /\ _BIC_MAP_CACHE.memo[1].arg = "other.xlsx"

\* Tokens that are a tag as the specification describes it: F, two digits,
\* an optional letter, with or without a colon.
TagTokens == {"F52A:", "F58A:", "F59:", "F50A:", "F59", "F58A"}

\* The line breaks of a text that stand after position p and before a tag.
TagBreaks(t, p) ==
    SelectSeq(Indices(t), LAMBDA k : k > p /\ k < Len(t) /\ t[k] = NL
                                     /\ t[k + 1] \in TagTokens)

\* The text after position p up to the next tag, stripped.
UpToNextTag(t, p) ==
    strip(SubSeq(t, p + 1, IF TagBreaks(t, p) = <<>> THEN Len(t)
                           ELSE TagBreaks(t, p)[1] - 1))

\* C16, as the specification states it: get_field_block returns None exactly
\* when the label does not occur in the text, and else the text after the
\* first occurrence of the label up to the next line that begins with a tag,
\* written with or without a colon, or up to the end of the text.
C16_UpToNextTag_AsStated ==
    (pc = "returned" /\ text.fn = "get_field_block") =>
        IF FieldLabelAt(text.text, text.field_label) = <<>> THEN result = None
        ELSE result = Render(UpToNextTag(text.text,
                                FieldLabelAt(text.text, text.field_label)[1]))

\* C16, for the texts in which no line begins with a tag that has a letter
\* and no colon, and in which the label is not followed at once by a line
\* break.
C16_UpToNextTag_ColonOrNoLetter ==
    ( /\ pc = "returned"
      /\ text.fn = "get_field_block"
      /\ \A k \in DOMAIN text.text : text.text[k] # "F58A"
      /\ \A k \in DOMAIN text.text :
            (text.text[k] = text.field_label \o ":" /\ k < Len(text.text))
               => text.text[k + 1] # NL ) =>
        IF FieldLabelAt(text.text, text.field_label) = <<>> THEN result = None
        ELSE result = Render(UpToNextTag(text.text,
                                FieldLabelAt(text.text, text.field_label)[1]))

\* 'F52A: foo\nbar\nF59: baz' asked for F52A has given 'foo\nbar'.
C16_Witness ==
    /\ pc = "returned"
    /\ text.fn = "get_field_block"
    /\ text.field_label = "F52A"
    /\ text.text = <<"F52A:", "foo", NL, "bar", NL, "F59:", "baz">>
    /\ result = "foo" \o NL \o "bar"

\* The number two digits stand for.
TwoDigits(a, b) ==
    10 * ((CHOOSE n \in 1..10 : DigitChars[n] = a) - 1)
    + (CHOOSE n \in 1..10 : DigitChars[n] = b) - 1

\* The day dd exists in month mm of year 2000 + yy.
InCalendar(yy, mm, dd) ==
    /\ mm >= 1 /\ mm <= 12
    /\ dd >= 1 /\ dd <= 31
    /\ mm \in {4, 6, 9, 11} => dd <= 30
    /\ mm = 2 => dd <= 29
    /\ (mm = 2 /\ dd = 29) => yy % 4 = 0

\* C17: on six digits YYMMDD parse_date_YYMMDD returns '20YY-MM-DD' when the
\* day exists in the calendar (29 February of a leap year included) and None
\* otherwise; it never raises.
C17_CalendarDate ==
    (pc = "returned" /\ text.fn = "parse_date_YYMMDD") =>
        IF InCalendar(TwoDigits(text.s[1], text.s[2]), TwoDigits(text.s[3], text.s[4]),
                      TwoDigits(text.s[5], text.s[6]))
        THEN result = "20" \o text.s[1] \o text.s[2] \o "-" \o text.s[3] \o text.s[4]
                      \o "-" \o text.s[5] \o text.s[6]
        ELSE result = None

\* 29 February 2024 has been parsed.
C17_Witness ==
    /\ pc = "returned"
    /\ text.fn = "parse_date_YYMMDD"
    /\ text.s = <<"2", "4", "0", "2", "2", "9">>
    /\ result = "2024-02-29"

\* The place of the last comma and of the last point of a string (0: none).
LastOf(s, c) ==
    IF \A k \in DOMAIN s : s[k] # c THEN 0
    ELSE CHOOSE k \in DOMAIN s : s[k] = c /\ \A j \in DOMAIN s : s[j] = c => j <= k

\* The string with the separator that occurs later turned into the decimal
\* point and the other separator removed.
LaterAsPoint(s) ==
    IF LastOf(s, ",") > LastOf(s, ".")
    THEN LET kept == SelectSeq(s, LAMBDA c : c # ".")
         IN  [k \in 1..Len(kept) |-> IF kept[k] = "," THEN "." ELSE kept[k]]
    ELSE SelectSeq(s, LAMBDA c : c # ",")

\* C18: on a string that holds a comma and a point, parse_amount returns what
\* it returns on the string in which the separator occurring later is the
\* decimal point and the other separator is removed; '191.700,64' and
\* '191,700.64' both give 191700.64.
C18_LaterSeparatorIsDecimal ==
    ( /\ pc = "returned"
      /\ text.fn = "parse_amount"
      /\ LastOf(text.s, ",") > 0
      /\ LastOf(text.s, ".") > 0 ) =>
        /\ result = parse_amount(LaterAsPoint(text.s))
        /\ text.s \in { <<"1", "9", "1", ".", "7", "0", "0", ",", "6", "4">>,
                        <<"1", "9", "1", ",", "7", "0", "0", ".", "6", "4">> }
             => result = "191700.64"

\* '191,700.64' has been parsed.
C18_Witness ==
    /\ pc = "returned"
    /\ text.fn = "parse_amount"
    /\ text.s = <<"1", "9", "1", ",", "7", "0", "0", ".", "6", "4">>
    /\ result = "191700.64"

\* The candidates of the search order that exist on disk, in order.
ExistingCandidates ==
    SelectSeq(ManagerCandidates,
              LAMBDA p : p \in DOMAIN workbook /\ workbook[p].state # "missing")

\* C24, as the specification states it: the first load of the resolver of
\* the pipeline, bic_utils.load_bic_mapping, called without a path, gives the
\* mapping of the first candidate that exists, in the order override
\* directories, bundled directory, relative defaults, and when no candidate
\* exists it fails with a not-found error that names every path tried.
C24_FirstExistingCandidate_AsStated ==
    [][ ( /\ pc' = "returned"
          /\ text' = None
          /\ _BIC_MAP_CACHE.globals = <<>>
          /\ \A k \in DOMAIN ExistingCandidates :
                workbook[ExistingCandidates[k]].state = "ok" ) =>
            IF ExistingCandidates = <<>>
            THEN /\ IsRaised(result')
                 /\ result'.exception = [FileNotFoundError |-> ManagerCandidates]
            ELSE /\ ~IsRaised(result')
                 /\ result' = MappingOfPath(ExistingCandidates[1]) ]_vars

\* C24, what the code does.  The resolver of the pipeline, called without a
\* path, reads data/bic_codes.xlsx and nothing else: its first load gives the
\* mapping of that file, the empty mapping when the file is absent, whatever
\* other candidate exists.  The resolver of extractor_manager, which the
\* pipeline does not call, takes the first candidate that exists in the
\* stated order; when none exists its error names the relative defaults
\* only, not the directories of the user and of the bundle it tried.
C24_FirstExistingCandidate ==
    [][ /\ ( /\ pc' = "returned"
             /\ text' = None
             /\ _BIC_MAP_CACHE.globals = <<>>
             /\ workbook["data/bic_codes.xlsx"].state # "corrupt" ) =>
               /\ ~IsRaised(result')
               /\ result' = MappingOfPath("data/bic_codes.xlsx")
               /\ workbook["data/bic_codes.xlsx"].state = "missing" =>
                     result' = <<>>
        /\ ( /\ pc' = "manager returned"
             /\ text' = None ) =>
               IF ExistingCandidates = <<>>
               THEN /\ IsRaised(result')
                    /\ result'.exception =
                          [FileNotFoundError |-> SubSeq(ManagerCandidates, 5, 9)]
               ELSE IF workbook[ExistingCandidates[1]].state = "corrupt"
               THEN IsRaised(result')
               ELSE result' = ManagerMapping(workbook[ExistingCandidates[1]].sheet)
      ]_vars

\* With data/bic_codes.xlsx absent and a workbook in the directory of the
\* user, the first load of the pipeline's resolver has returned the empty
\* mapping.
C24_Witness ==
    /\ pc = "returned"
    /\ text = None
    /\ workbook["data/bic_codes.xlsx"].state = "missing"
    /\ ExistingCandidates = <<"~/.pdf_swift_extractor/data/bic.xlsx">>
    /\ workbook["~/.pdf_swift_extractor/data/bic.xlsx"].sheet # <<>>
    /\ _BIC_MAP_CACHE.memo = << [arg |-> None, value |-> <<>>] >>
    /\ _BIC_MAP_CACHE._cached_mapping = <<>>
    /\ result = <<>>

\* The value of the F20 tag of the text of a call of parse_reference: what
\* stands after the first tag on its line, else the next line that is not
\* blank; <<>> without a tag or a value.
F20Value ==
    LET lines == Lines(text.text)
        tagged == SelectSeq(Indices(lines), LAMBDA i :
                      lines[i] # <<>> /\ lines[i][1] = "F20:")
        later == SelectSeq(SubSeq(lines, tagged[1] + 1, Len(lines)),
                           LAMBDA ln : ln # <<>>)
    IN  IF tagged = <<>> THEN <<>>
        ELSE IF Tail(lines[tagged[1]]) # <<>> THEN Tail(lines[tagged[1]])
        ELSE IF later = <<>> THEN <<>>
        ELSE later[1]

\* The value of the first F20 tag stands on the line of the tag.
F20SameLine ==
    \E p \in DOMAIN text.text :
        /\ text.text[p] = "F20:"
        /\ \A q \in 1..(p - 1) : text.text[q] # "F20:"
        /\ ~AtLineEnd(text.text, p)

\* A call of parse_reference has returned, on a text with an F20 tag and
\* without a ':20:' tag or a 'Transaction Reference' header.
ReferenceReturned ==
    /\ pc = "returned"
    /\ text.fn = "parse_reference"
    /\ \A p \in DOMAIN text.text :
          text.text[p] \notin {":20:", "Transaction Reference: REF01"}
    /\ F20Value # <<>>

\* C26, as the specification states it: the reference of a text whose F20 tag
\* is followed by a value that does not look like an amount is the first word
\* of the value in capitals, whether the value stands on the line of the tag
\* or on a later line after blank lines; a value that looks like an amount is
\* not returned.
C26_ReferenceFromF20_AsStated ==
    ReferenceReturned =>
        /\ F20Value = <<"abc123">> => result = "ABC123"
        /\ F20Value = <<"1000,50">> => result \notin {"1000", "1000,50"}

\* C26, what the code does: the value on a later line is returned in
\* capitals; the value on the line of the tag is not found, unless a later
\* F20 tag ends its line (the F20 field handed to the first step has lost
\* its tag, and the last step wants a tag that ends its line); no call
\* returns the amount.
C26_ReferenceFromF20 ==
    /\ ReferenceReturned =>
          /\ (F20Value = <<"abc123">> /\ ~F20SameLine) => result = "ABC123"
          /\ ( /\ F20Value = <<"abc123">>
               /\ F20SameLine
               /\ Cardinality({p \in DOMAIN text.text : text.text[p] = "F20:"}) = 1 )
                => result = None
    /\ (pc = "returned" /\ text.fn = "parse_reference") =>
          result \notin {"1000", "1000,50"}

\* parse_reference has returned None for the text 'F20: abc123'.
C26_Witness ==
    /\ pc = "returned"
    /\ text.fn = "parse_reference"
    /\ text.text = <<"F20:", "abc123">>
    /\ result = None

(***************************************************************************)
(* The reference-tag heuristic of the splitter (C27)                       *)
(***************************************************************************)
\* The reference-tag heuristic is reached and finds a tag: no heuristic of a
\* higher priority yields two blocks.
ReferenceTagReached ==
    /\ pc = "split"
    /\ text # <<>>
    /\ \A k \in 1..4 : Len(HeuristicYields(text)[k]) < 2
    /\ \E p \in DOMAIN text : text[p] = ":20:"

\* The text cut at every tag, the prefix before the first tag being a cut of
\* its own when the text does not begin with the tag; each cut stripped.
ReferenceTagCuts ==
    LET starts == {p \in DOMAIN text : text[p] = ":20:"} \cup {1}
        stop(p) == IF \E q \in starts : q > p
                   THEN (CHOOSE q \in starts : q > p /\ \A r \in starts : r > p => q <= r) - 1
                   ELSE Len(text)
        nth[j \in 1..Cardinality(starts)] ==
            IF j = 1 THEN 1 ELSE stop(nth[j - 1]) + 1
    IN  [j \in 1..Cardinality(starts) |-> strip(SubSeq(text, nth[j], stop(nth[j])))]

\* C27, as the specification states it: the heuristic cuts the text at every
\* tag, keeps the prefix before the first tag, and discards exactly the cuts
\* shorter than 10 characters, so that a cut of 10 characters or more is
\* always a block of the result.
C27_TenCharactersKept_AsStated ==
    LET kept == SelectSeq(ReferenceTagCuts, LAMBDA b : len(b) >= 10)
    IN  (ReferenceTagReached /\ Len(kept) >= 2) => result = kept

\* C27, what the code does: the cuts are those of the statement, but a cut
\* is kept only when it has more than 10 characters; a cut of exactly 10
\* characters is discarded with the shorter ones, and the heuristic gives
\* the result only when two cuts or more remain.
C27_TenCharactersKept ==
    LET kept == SelectSeq(ReferenceTagCuts, LAMBDA b : len(b) > 10)
    IN  /\ (ReferenceTagReached /\ Len(kept) >= 2) => result = kept
        /\ (ReferenceTagReached /\ Len(kept) < 2) =>
              result \in {HeuristicYields(text)[6], HeuristicYields(text)[7],
                          <<strip(text)>>}

\* The heuristic has split a text of three tagged cuts of 10, 16 and 16
\* characters into the two long ones: the cut of 10 characters is gone.
C27_Witness ==
    /\ ReferenceTagReached
    /\ Len(ReferenceTagCuts) = 3
    /\ len(ReferenceTagCuts[1]) = 10
    /\ result = <<ReferenceTagCuts[2], ReferenceTagCuts[3]>>

(***************************************************************************)
(* The last country fill of a turn (C28)                                   *)
(***************************************************************************)
\* The record of this turn as it stands before the fill of line 633.
BeforeFill ==
    Mt910Step(EnsureExpected(Caught(Tried, _detect_mt_type(blocks[index]),
                                    SourceLabel(index, Len(blocks) > 1)),
                             SourceLabel(index, Len(blocks) > 1)),
              blocks[index], _BIC_MAP_CACHE, workbook)

\* The country the workbook gives for the donor code of a record, None
\* without a code, a workbook or a country.
TableCountry(row) ==
    IF workbook = "ok" /\ Truthy(Get(row, "code_donneur_dordre"))
    THEN SheetCountry(Key8(Get(row, "code_donneur_dordre")))
    ELSE None

\* C28: the record emitted for a message that is not an MT910 is the record
\* before the last fill, with its country unchanged when it had one, even if
\* the workbook gives the donor code another country; the country of the
\* workbook is written only when the record had none and the workbook has one.
C28_FinalFillNonForcing ==
    [][ (Turn /\ Emits /\ Emitted.type_MT # "fin.910") =>
            IF Truthy(Get(BeforeFill, "pays_iso3")) \/ ~Truthy(TableCountry(BeforeFill))
            THEN Emitted = BeforeFill
            ELSE Emitted = [BeforeFill EXCEPT !.pays_iso3 = TableCountry(BeforeFill)]
      ]_vars

\* An MT103 whose text names Gabon and whose donor code is of Cameroon in the
\* workbook has been emitted with Gabon.
C28_Witness ==
    /\ workbook = "ok"
    /\ \E k \in DOMAIN blocks, i \in DOMAIN rows :
          /\ RecordOf(k, i)
          /\ rows[i].type_MT = "fin.103"
          /\ rows[i].code_donneur_dordre = "BEACCMCX"
          /\ SheetCountry("BEACCMCX") = "CMR"
          /\ rows[i].pays_iso3 = "GAB"

(***************************************************************************)
(* extractor_manager.extract_dispatch, called by the application            *)
(***************************************************************************)
\* extractor_manager._ensure_minimal_row
_ensure_minimal_row(mt_type) ==
    [ code_banque |-> None,
      date_reference |-> None,
      reference |-> None,
      type_MT |-> IF mt_type # None THEN "fin." \o mt_type ELSE None,
      pays_iso3 |-> None,
      institution_name |-> None,
      beneficiaire |-> None,
      montant |-> None,
      devise |-> None,
      source_pdf |-> PdfName ]

\* extractor_manager.extract_single on the text of the PDF: the type is
\* detected on the whole text, the extractor of EXTRACTOR_MAP is run on the
\* whole text with the name of the file as its source (extract_for_mt202,
\* extract_for_mt103, extract_for_mt910), and the row is completed (lines
\* 471-481); without a type or an extractor, or when the extractor raises,
\* the row is the minimal one.
extract_single(t, cache, xlsx) ==
    LET Completed(row, mt) ==
            IF IsRaised(row) THEN Put(_ensure_minimal_row(mt), "error", row.exception)
            ELSE LET required == row @@ _ensure_minimal_row(None)
                     named == IF /\ ~Truthy(required.institution_name)
                                 /\ Truthy(Get(required, "donneur_dordre"))
                              THEN Put(required, "institution_name",
                                       required.donneur_dordre)
                              ELSE required
                 IN  IF Truthy(named.type_MT) THEN named
                     ELSE Put(named, "type_MT", "fin." \o mt)
        Extracted(mt) ==
            CASE mt = "202" -> mt202_extract_block(t, PdfName, cache, xlsx)
              [] mt = "103" -> mt103_extract_block(t, PdfName, cache, xlsx)
              [] mt = "910" -> mt910_extract_block(t, PdfName)
        Single(mt) ==
            IF mt \in {"202", "103", "910"} THEN Completed(Extracted(mt), mt)
            ELSE _ensure_minimal_row(mt)
    IN  Single(detect_message_type(t))

\* The application hands extract_dispatch a PDF in a fresh process;
\* extract_messages_from_pdf is called with its default direction.
InitDispatch ==
    /\ pc = "dispatch"
    /\ text \in PdfTexts
    /\ result = <<>>
    /\ direction = "incoming"
    /\ workbook \in {"ok", "missing", "corrupt"}
    /\ _BIC_MAP_CACHE = "unset"
    /\ blocks = <<>>
    /\ index = 0
    /\ rows = <<>>
    /\ missing_codes = [unmapped |-> {}, empty |-> {}]

\* extract_dispatch, lines 364-389: the text is read and split; with more
\* than one block extract_messages_from_pdf is called, else the single
\* extractor.
DispatchSplit ==
    /\ pc = "dispatch"
    /\ pc' = IF Len(_split_messages(_safe_text_extract(text))) > 1 THEN "ready"
             ELSE "single"
    /\ UNCHANGED <<text, result, direction, workbook, _BIC_MAP_CACHE, blocks, index,
                   rows, missing_codes>>

\* extract_dispatch, lines 389-400: what extract_messages_from_pdf returned
\* is the pair (rows, missing_codes); the loop 'for r in rows' takes the
\* first member of the pair, the list of records, for a record: r.get raises
\* AttributeError, the except clause of line 398 catches it and the function
\* falls through to the single extractor.
DispatchNormalise ==
    /\ pc = "done"
    /\ pc' = "single"
    /\ UNCHANGED <<text, result, direction, workbook, _BIC_MAP_CACHE, blocks, index,
                   rows, missing_codes>>

\* extract_dispatch, lines 402-404: the single extractor, its row in a list.
\* The mapping is loaded by the look-up of a donor code, which the row of an
\* MT202 or MT103 shows (the MT910 extractor looks nothing up).
DispatchSingle ==
    /\ pc = "single"
    /\ \E single_row \in {extract_single(_safe_text_extract(text), _BIC_MAP_CACHE,
                                         workbook)} :
          /\ result' = <<single_row>>
          /\ _BIC_MAP_CACHE' =
                IF /\ detect_message_type(_safe_text_extract(text)) \in {"202", "103"}
                   /\ Truthy(Get(single_row, "donneur_dordre"))
                   /\ load_bic_mapping(_BIC_MAP_CACHE, workbook) # Raise
                THEN load_bic_mapping(_BIC_MAP_CACHE, workbook)
                ELSE _BIC_MAP_CACHE
    /\ pc' = "dispatched"
    /\ UNCHANGED <<text, direction, workbook, blocks, index, rows, missing_codes>>

\* streamlit_app/app.py, line 114: new_rows, missing_codes = extract_dispatch(...)
\* unpacks what it gets into two names; anything but two members raises
\* ValueError, which the except clause of the file loop reports.
AppUnpack ==
    /\ pc = "dispatched"
    /\ pc' = IF Len(result) = 2 THEN "unpacked" ELSE "ValueError"
    /\ UNCHANGED <<text, result, direction, workbook, _BIC_MAP_CACHE, blocks, index,
                   rows, missing_codes>>

NextDispatch ==
    \/ DispatchSplit
    \/ ReadPdf
    \/ ProcessBlock
    \/ Return
    \/ DispatchNormalise
    \/ DispatchSingle
    \/ AppUnpack

SpecDispatch == InitDispatch /\ [][NextDispatch]_vars

(***************************************************************************)
(* What extract_dispatch returns (C29)                                     *)
(***************************************************************************)
\* extract_dispatch has returned.
Dispatched == pc \in {"dispatched", "unpacked", "ValueError"}

\* The number of blocks the text of the PDF splits into.
BlockCount == Len(_split_messages(_safe_text_extract(text)))

\* C29, as stated: for a PDF of two blocks or more the result is the rows of
\* the multi-message extractor; the result is the one-row list of the single
\* extractor only for a PDF of at most one block; and the application can
\* unpack what it is handed.
C29_DispatchResult_AsStated ==
    /\ (Dispatched /\ BlockCount >= 2) => result = rows
    /\ (Dispatched /\ BlockCount <= 1) => Len(result) = 1
    /\ pc # "ValueError"

\* C29, what the code does: whatever the number of blocks, the result is a
\* list of one row, that of the single extractor run on the whole text, with
\* the name of the file as its source; for two blocks or more the
\* multi-message extractor has run and its rows are dropped. The application,
\* which unpacks the result into two names, never succeeds.
C29_DispatchResult ==
    /\ Dispatched =>
          /\ Len(result) = 1
          /\ result[1].source_pdf = PdfName
    /\ (Dispatched /\ BlockCount >= 2) => blocks = _split_messages(_safe_text_extract(text))
    /\ (Dispatched /\ BlockCount <= 1) => blocks = <<>>
    /\ pc # "unpacked"

\* A PDF of an MT202 and an MT103: the multi-message extractor emitted two
\* records, extract_dispatch returned the one row of the single extractor,
\* and the unpacking of the application raised.
C29_Witness ==
    /\ pc = "ValueError"
    /\ BlockCount = 2
    /\ Len(rows) = 2
    /\ rows[2].type_MT = "fin.103"
    /\ Len(result) = 1
    /\ result[1].type_MT = "fin.202"

(***************************************************************************)
(* Concurrent first look-ups in bic_utils.  Each thread calls               *)
(* map_code_to_name or map_code_to_country once; a thread switch can fall   *)
(* between any two statements of load_bic_mapping, which holds no lock.     *)
(* pc, text and result are functions of the thread; _BIC_MAP_CACHE holds    *)
(* the three module globals and the entry of lru_cache, each "unset",       *)
(* "empty" ({}) or "loaded"; index counts the reads of the workbook.        *)
(***************************************************************************)
NumThreads == 2

Threads == 1..NumThreads

InitRace ==
    /\ pc = [t \in Threads |-> "call"]
    /\ text \in [Threads -> [fn : {"map_code_to_name", "map_code_to_country"},
                             code : {"BEACCMCX", "CITIUSNY"}]]
    /\ result = [t \in Threads |-> None]
    /\ direction = "incoming"
    /\ workbook \in {"ok", "missing", "corrupt"}
    /\ _BIC_MAP_CACHE = [_BIC_MAP_CACHE |-> "unset", _BIC_FULLKEY_MAP |-> "unset",
                         _BIC_COUNTRY_MAP |-> "unset", memo |-> "unset"]
    /\ blocks = <<>>
    /\ index = 0
    /\ rows = <<>>
    /\ missing_codes = [unmapped |-> {}, empty |-> {}]

\* Lines 200 and 264 with line 85: the look-up calls load_bic_mapping; the
\* wrapper of lru_cache returns the remembered dict without entering the
\* body, once some call has returned.
EnterLoad(t) ==
    /\ pc[t] = "call"
    /\ pc' = [pc EXCEPT ![t] = IF _BIC_MAP_CACHE.memo # "unset" THEN "lookup"
                               ELSE "test"]
    /\ UNCHANGED <<text, result, direction, workbook, _BIC_MAP_CACHE, blocks, index,
                   rows, missing_codes>>

\* Lines 95-96: the early return looks at two of the three globals.
TestCache(t) ==
    /\ pc[t] = "test"
    /\ pc' = [pc EXCEPT ![t] =
                IF /\ _BIC_MAP_CACHE._BIC_MAP_CACHE # "unset"
                   /\ _BIC_MAP_CACHE._BIC_FULLKEY_MAP # "unset"
                THEN "lookup" ELSE "read"]
    /\ UNCHANGED <<text, result, direction, workbook, _BIC_MAP_CACHE, blocks, index,
                   rows, missing_codes>>

\* Lines 98-182: without a file the maps are empty; else the workbook is
\* read (pd.read_excel raises on a file that is no workbook, and the
\* exception leaves the look-up) and the three maps are built in locals.
ReadWorkbook(t) ==
    /\ pc[t] = "read"
    /\ pc' = [pc EXCEPT ![t] = IF workbook = "corrupt" THEN "raised" ELSE "assign 1"]
    /\ index' = IF workbook = "missing" THEN index ELSE index + 1
    /\ UNCHANGED <<text, result, direction, workbook, _BIC_MAP_CACHE, blocks, rows,
                   missing_codes>>

\* Lines 103-105 and 184-186: the three globals are assigned one after the
\* other, _BIC_MAP_CACHE, then _BIC_FULLKEY_MAP, then _BIC_COUNTRY_MAP.
AssignGlobal(t) ==
    /\ pc[t] \in {"assign 1", "assign 2", "assign 3"}
    /\ \E maps \in {IF workbook = "missing" THEN "empty" ELSE "loaded"} :
          _BIC_MAP_CACHE' =
              CASE pc[t] = "assign 1" -> [_BIC_MAP_CACHE EXCEPT !._BIC_MAP_CACHE = maps]
                [] pc[t] = "assign 2" -> [_BIC_MAP_CACHE EXCEPT !._BIC_FULLKEY_MAP = maps]
                [] pc[t] = "assign 3" -> [_BIC_MAP_CACHE EXCEPT !._BIC_COUNTRY_MAP = maps]
    /\ pc' = [pc EXCEPT ![t] = CASE pc[t] = "assign 1" -> "assign 2"
                                 [] pc[t] = "assign 2" -> "assign 3"
                                 [] pc[t] = "assign 3" -> "return"]
    /\ UNCHANGED <<text, result, direction, workbook, blocks, index, rows,
                   missing_codes>>

\* Lines 106 and 187: the body returns and lru_cache remembers the dict.
ReturnLoad(t) ==
    /\ pc[t] = "return"
    /\ _BIC_MAP_CACHE' = [_BIC_MAP_CACHE EXCEPT !.memo = _BIC_MAP_CACHE._BIC_MAP_CACHE]
    /\ pc' = [pc EXCEPT ![t] = "lookup"]
    /\ UNCHANGED <<text, result, direction, workbook, blocks, index, rows,
                   missing_codes>>

\* Lines 201-210 and 265-270: the look-up in the globals as they are now;
\* a global that is None or {} gives None (the codes of the calls have 8
\* characters: the full-code map and the name map give them the same name).
LookUp(t) ==
    /\ pc[t] = "lookup"
    /\ result' = [result EXCEPT ![t] =
          IF text[t].fn = "map_code_to_country"
          THEN IF _BIC_MAP_CACHE._BIC_COUNTRY_MAP = "loaded"
               THEN SheetCountry(Key8(text[t].code)) ELSE None
          ELSE IF \/ _BIC_MAP_CACHE._BIC_FULLKEY_MAP = "loaded"
                  \/ _BIC_MAP_CACHE._BIC_MAP_CACHE = "loaded"
               THEN SheetName(text[t].code) ELSE None]
    /\ pc' = [pc EXCEPT ![t] = "returned"]
    /\ UNCHANGED <<text, direction, workbook, _BIC_MAP_CACHE, blocks, index, rows,
                   missing_codes>>

NextRace ==
    \E t \in Threads :
        \/ EnterLoad(t)
        \/ TestCache(t)
        \/ ReadWorkbook(t)
        \/ AssignGlobal(t)
        \/ ReturnLoad(t)
        \/ LookUp(t)

SpecRace == InitRace /\ [][NextRace]_vars

(***************************************************************************)
(* The first load under concurrent callers (C30)                           *)
(***************************************************************************)
\* Thread t has returned from a look-up of the country of a code that has a
\* country in the readable workbook.
CountryAsked(t) ==
    /\ pc[t] = "returned"
    /\ workbook = "ok"
    /\ text[t].fn = "map_code_to_country"
    /\ SheetCountry(Key8(text[t].code)) # None

\* No thread is inside the body of load_bic_mapping.
NoLoadUnderWay == \A t \in Threads : pc[t] \in {"call", "lookup", "returned", "raised"}

\* C30, as stated: the first load is serialized, so the workbook is read at
\* most once and no look-up of a country meets the name maps published with
\* the country map still unset: a code that has a country in the table
\* resolves to it whatever the interleaving.
C30_LoadSerialized_AsStated ==
    /\ index <= 1
    /\ \A t \in Threads :
          CountryAsked(t) => result[t] = SheetCountry(Key8(text[t].code))

\* C30, what the code guarantees without a lock: each thread reads the
\* workbook at most once; the globals are all unset or all set whenever no
\* thread is inside the load; a look-up of a name always gives the name of
\* the table; a look-up of a country gives the country of the table or none
\* at all, never another one.
C30_LoadSerialized ==
    /\ index <= NumThreads
    /\ NoLoadUnderWay =>
          \/ \A g \in {"_BIC_MAP_CACHE", "_BIC_FULLKEY_MAP", "_BIC_COUNTRY_MAP"} :
                _BIC_MAP_CACHE[g] = "unset"
          \/ \A g \in {"_BIC_MAP_CACHE", "_BIC_FULLKEY_MAP", "_BIC_COUNTRY_MAP"} :
                _BIC_MAP_CACHE[g] # "unset"
    /\ \A t \in Threads :
          /\ (pc[t] = "returned" /\ workbook = "ok" /\ text[t].fn = "map_code_to_name")
                => result[t] = SheetName(text[t].code)
          /\ CountryAsked(t) => result[t] \in {SheetCountry(Key8(text[t].code)), None}

\* While one thread stands between the assignment of the full-code map and
\* that of the country map, another has looked up the country of BEACCMCX,
\* which the table puts in Cameroon, and got none.
C30_Witness ==
    \E t \in Threads, u \in Threads :
        /\ pc[u] = "assign 3"
        /\ CountryAsked(t)
        /\ text[t].code = "BEACCMCX"
        /\ SheetCountry("BEACCMCX") = "CMR"
        /\ result[t] = None

====
